---- MODULE Spec2Model ----
(***************************************************************************)
(* Paykit payment orchestration core: the per-payment state machine        *)
(* (PaymentState), the PaymentOrder that owns the payments, and the        *)
(* PaymentSender that drives them through plugins and plugin callbacks.    *)
(*                                                                         *)
(* Abstractions: ids, amounts, memo and the startAt/endAt timestamps of a  *)
(* plugin run are left out (no operation branches on them); Date.now() is  *)
(* the logical clock `now`.                                                *)
(***************************************************************************)
EXTENDS Integers, Sequences, FiniteSets, TLC

\* ------------------------------------------------------------------------
\* Bounds
\* ------------------------------------------------------------------------
MaxPlugins ==
  2

MaxPriority ==
  3

PluginNames ==
  <<"p2sh", "p2tr", "bolt11", "onchain">>

Plugins ==
  { PluginNames[i] : i \in 1..MaxPlugins }

\* every sendingPriority the model draws: sequences of plugin names
Priorities ==
  UNION { [1..n -> Plugins] : n \in 0..MaxPriority }

\* ------------------------------------------------------------------------
\* PaymentState: constants
\* ------------------------------------------------------------------------
INITIAL == "initial"
IN_PROGRESS == "in_progress"
COMPLETED == "completed"
FAILED == "failed"
CANCELLED == "cancelled"

PAYMENT_STATE ==
  {INITIAL, IN_PROGRESS, COMPLETED, FAILED, CANCELLED}

SUBMITTED == "submitted"
PLUGIN_FAILED == "failed"
SUCCESS == "success"

NoName == "<none>"

\* null currentPlugin / completedByPlugin
Nil ==
  [name |-> NoName, state |-> NoName]

\* ------------------------------------------------------------------------
\* Errors
\* ------------------------------------------------------------------------
Err(kind, arg) ==
  [kind |-> kind, arg |-> arg]

NoError ==
  Err("none", "")

INVALID_STATE(s) ==
  Err("INVALID_STATE", s)

PLUGIN_IN_PROGRESS(name) ==
  Err("PLUGIN_IN_PROGRESS", name)

NO_CURRENT_PLUGIN ==
  Err("No current plugin", "")

\* outcome of a PaymentState method: the state it leaves, what it threw,
\* what it returned
Thrown(ps, e) ==
  [ps |-> ps, err |-> e, ret |-> FALSE]

Returned(ps, r) ==
  [ps |-> ps, err |-> NoError, ret |-> r]

\* ------------------------------------------------------------------------
\* PaymentState: methods
\* ------------------------------------------------------------------------
\* new PaymentState(payment) followed by assignPendingPlugins(sendingPriority)
NewPaymentState(pendingPlugins) ==
  [internalState |-> INITIAL,
   pendingPlugins |-> pendingPlugins,
   triedPlugins |-> << >>,
   currentPlugin |-> Nil,
   completedByPlugin |-> Nil]

isInitial(ps) ==
  ps.internalState = INITIAL

isInProgress(ps) ==
  ps.internalState = IN_PROGRESS

isFailed(ps) ==
  ps.internalState = FAILED

isFinal(ps) ==
  ps.internalState \in {COMPLETED, FAILED, CANCELLED}

\* the current plugin run closed with the given state
markCurrentPluginAsTried(ps, state) ==
  [name |-> ps.currentPlugin.name, state |-> state]

PS_cancel_anyState(ps) ==
  IF ps.internalState # CANCELLED
  THEN Returned([ps EXCEPT !.internalState = CANCELLED], TRUE)
  ELSE Thrown(ps, INVALID_STATE(ps.internalState))

PS_cancel(ps) ==
  IF isInitial(ps) \/ isInProgress(ps)
  THEN Returned([ps EXCEPT !.internalState = CANCELLED], TRUE)
  ELSE Thrown(ps, INVALID_STATE(ps.internalState))

PS_failCurrentPlugin_drop(ps) ==
  IF ~isInProgress(ps) THEN Thrown(ps, INVALID_STATE(ps.internalState))
  ELSE IF ps.currentPlugin = Nil THEN Thrown(ps, NO_CURRENT_PLUGIN)
  ELSE Returned([ps EXCEPT !.currentPlugin = Nil], TRUE)

PS_failCurrentPlugin(ps) ==
  IF ~isInProgress(ps) THEN Thrown(ps, INVALID_STATE(ps.internalState))
  ELSE IF ps.currentPlugin = Nil THEN Thrown(ps, NO_CURRENT_PLUGIN)
  ELSE Returned([ps EXCEPT
                   !.triedPlugins =
                      Append(@, markCurrentPluginAsTried(ps, PLUGIN_FAILED)),
                   !.currentPlugin = Nil], TRUE)

PS_fail(ps) ==
  IF ~isInProgress(ps) THEN Thrown(ps, INVALID_STATE(ps.internalState))
  ELSE LET p1 == IF ps.currentPlugin # Nil
                 THEN PS_failCurrentPlugin(ps).ps
                 ELSE ps
       IN  Returned([p1 EXCEPT !.internalState = FAILED], TRUE)

PS_tryNext_last(ps) ==
  IF ~isInProgress(ps) THEN Thrown(ps, INVALID_STATE(ps.internalState))
  ELSE IF ps.currentPlugin # Nil
       THEN Thrown(ps, PLUGIN_IN_PROGRESS(ps.currentPlugin.name))
  ELSE IF ps.pendingPlugins = << >> THEN Returned(ps, FALSE)
  ELSE Returned([ps EXCEPT
                   !.currentPlugin =
                      [name |-> ps.pendingPlugins[Len(ps.pendingPlugins)],
                       state |-> SUBMITTED],
                   !.pendingPlugins = SubSeq(@, 1, Len(@) - 1)], TRUE)

PS_tryNext(ps) ==
  IF ~isInProgress(ps) THEN Thrown(ps, INVALID_STATE(ps.internalState))
  ELSE IF ps.currentPlugin # Nil
       THEN Thrown(ps, PLUGIN_IN_PROGRESS(ps.currentPlugin.name))
  ELSE IF ps.pendingPlugins = << >> THEN Returned(ps, FALSE)
  ELSE Returned([ps EXCEPT
                   !.currentPlugin =
                      [name |-> Head(ps.pendingPlugins), state |-> SUBMITTED],
                   !.pendingPlugins = Tail(@)], TRUE)

PS_process_replace(ps) ==
  LET p1 == IF isInitial(ps)
            THEN [ps EXCEPT !.internalState = IN_PROGRESS]
            ELSE ps
  IN  IF ~isInProgress(p1) THEN Thrown(ps, INVALID_STATE(ps.internalState))
      ELSE IF p1.pendingPlugins = << >>
           THEN [PS_fail(p1) EXCEPT !.ret = FALSE]
      ELSE PS_tryNext([p1 EXCEPT !.currentPlugin = Nil])

PS_process(ps) ==
  LET p1 == IF isInitial(ps)
            THEN [ps EXCEPT !.internalState = IN_PROGRESS]
            ELSE ps
  IN  IF ~isInProgress(p1) THEN Thrown(ps, INVALID_STATE(ps.internalState))
      ELSE IF p1.currentPlugin # Nil
           THEN Thrown(p1, PLUGIN_IN_PROGRESS(p1.currentPlugin.name))
      ELSE IF p1.pendingPlugins = << >>
           THEN [PS_fail(p1) EXCEPT !.ret = FALSE]
      ELSE PS_tryNext(p1)

PS_complete_keepCurrent(ps) ==
  IF ~isInProgress(ps) THEN Thrown(ps, INVALID_STATE(ps.internalState))
  ELSE Returned([ps EXCEPT
                   !.completedByPlugin = markCurrentPluginAsTried(ps, SUCCESS),
                   !.internalState = COMPLETED], TRUE)

PS_complete_tried(ps) ==
  IF ~isInProgress(ps) THEN Thrown(ps, INVALID_STATE(ps.internalState))
  ELSE Returned([ps EXCEPT
                   !.completedByPlugin = markCurrentPluginAsTried(ps, SUCCESS),
                   !.triedPlugins =
                      Append(@, markCurrentPluginAsTried(ps, SUCCESS)),
                   !.currentPlugin = Nil,
                   !.internalState = COMPLETED], TRUE)

PS_complete_unguarded(ps) ==
  IF isFinal(ps) THEN Thrown(ps, INVALID_STATE(ps.internalState))
  ELSE Returned([ps EXCEPT
                   !.completedByPlugin = markCurrentPluginAsTried(ps, SUCCESS),
                   !.currentPlugin = Nil,
                   !.internalState = COMPLETED], TRUE)

PS_complete(ps) ==
  IF ~isInProgress(ps) THEN Thrown(ps, INVALID_STATE(ps.internalState))
  ELSE Returned([ps EXCEPT
                   !.completedByPlugin = markCurrentPluginAsTried(ps, SUCCESS),
                   !.currentPlugin = Nil,
                   !.internalState = COMPLETED], TRUE)

\* ------------------------------------------------------------------------
\* State
\* ------------------------------------------------------------------------
VARIABLES
  order,      \* the PaymentOrder: state, frequency, timestamps, sendingPriority
  payments,   \* order.payments: sequence of PaymentObjects
  now,        \* Date.now()
  registry,   \* pluginManager.plugins: name -> "absent" | "active" | "inactive"
  catalogue,  \* what the transport returns for the counterparty
  payLog,     \* pay invocations made so far: <<payment index, plugin name>>
  cbLog,      \* plugin callbacks delivered so far, with their outcome
  reports,    \* what the entry-point callback has been handed so far
  lastOp,     \* the operation invoked last
  lastErr,    \* what it raised (NoError when it returned)
  pm,         \* pluginManager: the registered plugins behind the registry,
              \* the plugin methods the last operation called, its result
  incoming,   \* db: the incoming payments, in the order they were saved
  receiver,   \* PaymentReceiver: ready, the public slashpay file it wrote
              \* last, and what its last handler did
  tasks       \* calls that run interleaved: where each one is and what it
              \* holds in memory

vars ==
  <<order, payments, now, registry, catalogue, payLog, cbLog, reports,
    lastOp, lastErr, pm, incoming, receiver, tasks>>

\* ------------------------------------------------------------------------
\* PluginManager: what it keeps of a plugin
\* ------------------------------------------------------------------------
\* no entry under this name
NoPlugin ==
  [type |-> NoName, events |-> {}, stop |-> NoName]

\* a manager nothing was loaded into with its operations
PmIdle ==
  [plugin |-> [p \in Plugins |-> NoPlugin],
   keys |-> << >>,
   arg |-> NoName,
   calls |-> << >>,
   ret |-> NoName]

\* an amount that is not set
NoAmount == -1

\* no payment was notified
NoResult ==
  [id |-> 0, internalState |-> NoName, amountDue |-> NoAmount,
   invoiceURL |-> NoName]

\* what the last handler of the receiver did: how often it ran init(), the
\* amount it called createInvoice with, the result it notified
Quiet ==
  [inits |-> 0, invoice |-> NoAmount, notified |-> NoResult]

\* a receiver that was constructed: not ready, no slashpay file written
ReceiverIdle ==
  [ready |-> FALSE, written |-> FALSE, slashpay |-> {}, did |-> Quiet,
   id |-> 0]

\* order states
CREATED == "created"
INITIALIZED == "initialized"
PROCESSING == "processing"
ORDER_COMPLETED_STATE == "completed"
ORDER_CANCELLED_STATE == "cancelled"

\* lastPaymentAt = null
NoTime ==
  -1

\* a PaymentObject after its init(): the state machine holds the priority list
NewPayment(executeAt, pendingPlugins) ==
  [executeAt |-> executeAt,
   pluginUpdate |-> "none",
   state |-> NewPaymentState(pendingPlugins)]

NewOrder(state, frequency, firstPaymentAt, lastPaymentAt, sendingPriority) ==
  [state |-> state,
   frequency |-> frequency,
   firstPaymentAt |-> firstPaymentAt,
   lastPaymentAt |-> lastPaymentAt,
   sendingPriority |-> sendingPriority]

\* ------------------------------------------------------------------------
\* The state machine of one payment, driven directly
\* ------------------------------------------------------------------------
\* one initialised outgoing payment of a one-time order, any priority list
InitState ==
  /\ \E prio \in Priorities :
        /\ order = NewOrder(INITIALIZED, 0, 0, 0, prio)
        /\ payments = << NewPayment(0, prio) >>
  /\ now = 0
  /\ registry = [p \in Plugins |-> "active"]
  /\ catalogue = [readable |-> TRUE, targets |-> Plugins]
  /\ payLog = << >>
  /\ cbLog = << >>
  /\ reports = << >>
  /\ lastOp = "init"
  /\ lastErr = NoError
  /\ pm = PmIdle
  /\ incoming = << >>
  /\ receiver = ReceiverIdle
  /\ tasks = << >>

\* the payment the state-machine specifications drive
ps ==
  payments[1].state

\* invoke one PaymentState method on payment i and keep what it left
Invoke(i, op, res) ==
  /\ payments' = [payments EXCEPT ![i].state = res.ps]
  /\ lastOp' = op
  /\ lastErr' = res.err
  /\ UNCHANGED <<order, now, registry, catalogue, payLog, cbLog, reports, pm,
                 incoming, receiver, tasks>>

CallProcess ==
  Invoke(1, "process", PS_process(ps))

CallTryNext ==
  Invoke(1, "tryNext", PS_tryNext(ps))

CallFailCurrentPlugin ==
  Invoke(1, "failCurrentPlugin", PS_failCurrentPlugin(ps))

CallFail ==
  Invoke(1, "fail", PS_fail(ps))

CallComplete ==
  Invoke(1, "complete", PS_complete(ps))

CallCancel ==
  Invoke(1, "cancel", PS_cancel(ps))

NextState ==
  \/ CallProcess
  \/ CallTryNext
  \/ CallFailCurrentPlugin
  \/ CallFail
  \/ CallComplete
  \/ CallCancel

SpecState ==
  InitState /\ [][NextState]_vars

\* process and failCurrentPlugin only: the retry walk through the priority list
NextRetry ==
  \/ CallProcess
  \/ CallFailCurrentPlugin

SpecRetry ==
  InitState /\ [][NextRetry]_vars

\* ------------------------------------------------------------------------
\* PaymentOrder and PaymentSender: constants and errors
\* ------------------------------------------------------------------------
MIN_FREQUENCY ==
  1

BATCH_SIZE ==
  100

MaxTime ==
  3

MaxPayments ==
  2

MaxCallbacks ==
  2

CAN_NOT_PROCESS_ORDER ==
  Err("CAN_NOT_PROCESS_ORDER", "")

OUTSTANDING_PAYMENTS ==
  Err("OUTSTANDING_PAYMENTS", "")

ORDER_CANCELLED ==
  Err("ORDER_CANCELLED", "")

ORDER_COMPLETED ==
  Err("ORDER_COMPLETED", "")

NO_PLUGINS_AVAILABLE ==
  Err("NO_PLUGINS_AVAILABLE", "")

PLUGIN_NOT_ACTIVE ==
  Err("Plugin is not active", "")

NO_PAYMENT_IN_PROCESS ==
  Err("No payment in process", "")

\* a property read or a destructuring of undefined / null
TYPE_ERROR ==
  Err("TypeError", "")

\* the part of the state the order and the sender work on
World ==
  [order |-> order, payments |-> payments, registry |-> registry,
   payLog |-> payLog, reports |-> reports, unsaved |-> {}, lost |-> FALSE]

\* a field of an object was assigned in memory: x = 0 is the order, x = i
\* the payment i; the object differs from what the store holds
Assigned(w, x) ==
  [w EXCEPT !.unsaved = @ \cup {x}]

\* update() or save() of the object x: the store holds it as it is
update(w, x) ==
  [w EXCEPT !.unsaved = @ \ {x}]

\* outcome of an order or sender method: the world it leaves, what it
\* threw, the index of the payment it returned (0: none)
Ok(w, i) ==
  [w |-> w, err |-> NoError, ret |-> i]

Raise(w, e) ==
  [w |-> w, err |-> e, ret |-> 0]

\* entryPointForPlugin(payload): the notification is lost to the store if
\* the object it is about (payment i, the order for i = 0) has an unwritten
\* assignment
Report(w, kind, i, what) ==
  [w EXCEPT !.reports = Append(@, [kind |-> kind, payment |-> i, what |-> what]),
            !.lost = @ \/ (kind # "error" /\ i \in w.unsaved)]

\* the one element of a singleton: { e(x) : x \in {v} } computes v once and
\* names it x
Only(S) ==
  CHOOSE x \in S : TRUE

\* Array.prototype.find over the payments, hits being the indices that pass
\* the test: the index of the first match, 0 if none
find(hits) ==
  IF hits = {} THEN 0 ELSE CHOOSE i \in hits : \A j \in hits : i <= j

\* ------------------------------------------------------------------------
\* PaymentObject: the methods the order and the sender call
\* ------------------------------------------------------------------------
\* init(): the state machine receives the priority list
PO_init(w, i) ==
  update([w EXCEPT !.payments[i].state =
            [@ EXCEPT !.pendingPlugins = w.order.sendingPriority]], i)

\* a PaymentState method run through the PaymentObject that owns the state
PO_call(w, i, res) ==
  [w |-> IF res.err = NoError
         THEN update([w EXCEPT !.payments[i].state = res.ps], i)
         ELSE [w EXCEPT !.payments[i].state = res.ps],
   err |-> res.err, ret |-> i]

PO_process(w, i) ==
  PO_call(w, i, PS_process(w.payments[i].state))

PO_complete(w, i) ==
  PO_call(w, i, PS_complete(w.payments[i].state))

PO_failCurrentPlugin(w, i) ==
  PO_call(w, i, PS_failCurrentPlugin(w.payments[i].state))

PO_cancel(w, i) ==
  PO_call(w, i, PS_cancel(w.payments[i].state))

\* ------------------------------------------------------------------------
\* PaymentOrder
\* ------------------------------------------------------------------------
createPaymentObjects(o, counter) ==
  [i \in 1..counter |->
     NewPayment(o.firstPaymentAt + o.frequency * (i - 1), << >>)]

\* a batch that also holds the payment due at lastPaymentAt
createPaymentForRecurringOrder_inclusive(o) ==
  LET counter == IF o.lastPaymentAt # NoTime /\ o.lastPaymentAt # 0
                 THEN (o.lastPaymentAt - o.firstPaymentAt) \div o.frequency + 1
                 ELSE BATCH_SIZE
  IN  createPaymentObjects(o, counter)

createPaymentForRecurringOrder(o) ==
  LET counter == IF o.lastPaymentAt # NoTime /\ o.lastPaymentAt # 0
                 THEN (o.lastPaymentAt - o.firstPaymentAt) \div o.frequency
                 ELSE BATCH_SIZE
  IN  createPaymentObjects(o, counter)

\* new PaymentOrder(params): a one-time order ends at its first payment, a
\* lastPaymentAt of 0 counts as not given
construct(frequency, firstPaymentAt, lastPaymentAt, sendingPriority) ==
  NewOrder(CREATED, frequency, firstPaymentAt,
           IF frequency = 0 THEN firstPaymentAt
           ELSE IF lastPaymentAt = 0 THEN NoTime
           ELSE lastPaymentAt,
           sendingPriority)

\* init() of a constructed order
O_init(o) ==
  [order |-> [o EXCEPT !.state = INITIALIZED],
   payments |-> IF o.frequency = 0
                THEN createPaymentObjects(o, 1)
                ELSE createPaymentForRecurringOrder(o)]

\* new PaymentOrder(params) followed by init()
InitOrder(frequency, firstPaymentAt, lastPaymentAt, sendingPriority) ==
  O_init(construct(frequency, firstPaymentAt, lastPaymentAt, sendingPriority))

\* canProcess() looking at the state of the order only
canProcess_stateOnly(w) ==
  w.order.state \in {INITIALIZED, PROCESSING}

canProcess(w) ==
  /\ find({ i \in DOMAIN w.payments : isFailed(w.payments[i].state) }) = 0
  /\ w.order.state \in {INITIALIZED, PROCESSING}

getPaymentInProgress(w) ==
  find({ i \in DOMAIN w.payments : isInProgress(w.payments[i].state) })

\* this.payments.find((payment) => !payment.isFinal())
firstNotFinal(w) ==
  find({ i \in DOMAIN w.payments : ~isFinal(w.payments[i].state) })

getFirstOutstandingPayment(w) ==
  IF firstNotFinal(w) # 0 THEN Ok(w, firstNotFinal(w))
  ELSE IF w.order.frequency = 0 THEN Ok(w, 0)
  ELSE IF w.order.lastPaymentAt # NoTime /\ w.order.lastPaymentAt # 0
          /\ w.order.lastPaymentAt < now
       THEN Ok(w, 0)
  ELSE LET w1 == [w EXCEPT !.payments =
                              @ \o createPaymentForRecurringOrder(w.order)]
       IN  Ok(w1, firstNotFinal(w1))

O_complete_anyPayments(w) ==
  IF w.order.state = ORDER_CANCELLED_STATE THEN Raise(w, ORDER_CANCELLED)
  ELSE IF w.order.state = ORDER_COMPLETED_STATE THEN Raise(w, ORDER_COMPLETED)
  ELSE Ok([w EXCEPT !.order.state = ORDER_COMPLETED_STATE], Len(w.payments))

\* complete() that accepts an order that is already COMPLETED
O_complete_again(w) ==
  IF w.order.state = ORDER_CANCELLED_STATE THEN Raise(w, ORDER_CANCELLED)
  ELSE IF \A i \in DOMAIN w.payments : isFinal(w.payments[i].state)
       THEN Ok([w EXCEPT !.order.state = ORDER_COMPLETED_STATE],
               Len(w.payments))
  ELSE Raise(w, OUTSTANDING_PAYMENTS)

O_complete(w) ==
  IF w.order.state = ORDER_CANCELLED_STATE THEN Raise(w, ORDER_CANCELLED)
  ELSE IF w.order.state = ORDER_COMPLETED_STATE THEN Raise(w, ORDER_COMPLETED)
  ELSE IF \A i \in DOMAIN w.payments : isFinal(w.payments[i].state)
       THEN Ok(update(Assigned([w EXCEPT !.order.state = ORDER_COMPLETED_STATE],
                               0), 0),
               Len(w.payments))
  ELSE Raise(w, OUTSTANDING_PAYMENTS)

RECURSIVE cancelFrom(_, _)
\* the loop of cancel(): payments i, i+1, ... in turn, stopping at a throw
cancelFrom(w, i) ==
  IF i > Len(w.payments) THEN Ok(w, 0)
  ELSE IF isFinal(w.payments[i].state) THEN cancelFrom(w, i + 1)
  ELSE Only({ IF c.err # NoError THEN Raise(c.w, c.err)
              ELSE cancelFrom(c.w, i + 1)
            : c \in {PO_cancel(w, i)} })

\* cancel() that marks the order and leaves its payments as they are
O_cancel_orderOnly(w) ==
  IF w.order.state = ORDER_COMPLETED_STATE THEN Raise(w, ORDER_COMPLETED)
  ELSE Ok([w EXCEPT !.order.state = ORDER_CANCELLED_STATE], 0)

\* cancel() without the test for a COMPLETED order
O_cancel_unchecked(w) ==
  Only({ IF c.err # NoError THEN c
         ELSE Ok(update(Assigned([c.w EXCEPT !.order.state =
                                          ORDER_CANCELLED_STATE], 0), 0), 0)
       : c \in {cancelFrom(w, 1)} })

O_cancel(w) ==
  IF w.order.state = ORDER_COMPLETED_STATE THEN Raise(w, ORDER_COMPLETED)
  ELSE Only({ IF c.err # NoError THEN c
              ELSE Ok(update(Assigned([c.w EXCEPT !.order.state =
                                               ORDER_CANCELLED_STATE], 0), 0), 0)
            : c \in {cancelFrom(w, 1)} })

\* processPayment() that does not look at executeAt
processPayment_ungated(w, i) ==
  LET w1 == PO_init(w, i)
      w2 == [w1 EXCEPT !.order.state = PROCESSING]
  IN  PO_process(w2, i)

processPayment(w, i) ==
  IF w.payments[i].executeAt > now THEN Ok(w, i)
  ELSE LET w1 == PO_init(w, i)
           w2 == update(Assigned([w1 EXCEPT !.order.state = PROCESSING], 0), 0)
       IN  PO_process(w2, i)

\* process() that does not look for a payment in progress and takes the
\* first payment that is still INITIAL
O_process_next(w) ==
  IF ~canProcess(w) THEN Raise(w, CAN_NOT_PROCESS_ORDER)
  ELSE Only({ IF i = 0 THEN O_complete(w) ELSE processPayment(w, i)
            : i \in {find({ k \in DOMAIN w.payments :
                               isInitial(w.payments[k].state) })} })

\* process() handing back the payment in progress without asking it to
\* process
O_process_resume(w) ==
  IF ~canProcess(w) THEN Raise(w, CAN_NOT_PROCESS_ORDER)
  ELSE IF getPaymentInProgress(w) # 0
       THEN Ok(w, getPaymentInProgress(w))
  ELSE Only({ IF g.ret = 0 THEN O_complete(g.w)
              ELSE processPayment(g.w, g.ret)
            : g \in {getFirstOutstandingPayment(w)} })

O_process(w) ==
  IF ~canProcess(w) THEN Raise(w, CAN_NOT_PROCESS_ORDER)
  ELSE IF getPaymentInProgress(w) # 0
       THEN PO_process(w, getPaymentInProgress(w))
  ELSE Only({ IF g.ret = 0 THEN O_complete(g.w)
              ELSE processPayment(g.w, g.ret)
            : g \in {getFirstOutstandingPayment(w)} })

\* ------------------------------------------------------------------------
\* PaymentSender
\* ------------------------------------------------------------------------
\* pluginManager.loadPlugin(name): the module is initialised and registered
loadPlugin(w, name) ==
  [w EXCEPT !.registry[name] = "active"]

\* getCurrentPlugin that hands out a registered plugin whether it is active
\* or not
getCurrentPlugin_anyEntry(w, i) ==
  IF i = 0 THEN Raise(w, TYPE_ERROR)
  ELSE LET currentPlugin == w.payments[i].state.currentPlugin
       IN  IF currentPlugin = Nil THEN Raise(w, NO_PLUGINS_AVAILABLE)
           ELSE IF w.registry[currentPlugin.name] # "absent" THEN Ok(w, i)
           ELSE Ok(loadPlugin(w, currentPlugin.name), i)

\* getCurrentPlugin(payment); i = 0 stands for an undefined payment
getCurrentPlugin(w, i) ==
  IF i = 0 THEN Raise(w, TYPE_ERROR)
  ELSE LET currentPlugin == w.payments[i].state.currentPlugin
       IN  IF currentPlugin = Nil THEN Raise(w, NO_PLUGINS_AVAILABLE)
           ELSE IF w.registry[currentPlugin.name] = "inactive"
                THEN Raise(w, PLUGIN_NOT_ACTIVE)
           ELSE IF w.registry[currentPlugin.name] = "active" THEN Ok(w, i)
           ELSE Ok(loadPlugin(w, currentPlugin.name), i)

RECURSIVE submit(_)
RECURSIVE handleFailure(_, _)

\* after order.process() returned payment p.ret
submitPayment(p) ==
  Only({ IF g.err # NoError THEN Raise(g.w, g.err)
         ELSE IF ~catalogue.readable THEN Raise(g.w, TYPE_ERROR)
         ELSE IF g.w.payments[g.ret].state.currentPlugin.name
                   \notin catalogue.targets
              THEN handleFailure(
                     Assigned([g.w EXCEPT !.payments[g.ret].pluginUpdate =
                                            PLUGIN_FAILED], g.ret),
                     g.ret)
         ELSE Ok([g.w EXCEPT !.payLog = Append(@,
                    [payment |-> g.ret,
                     plugin |-> g.w.payments[g.ret].state.currentPlugin.name])],
                 g.ret)
       : g \in {getCurrentPlugin(p.w, p.ret)} })

submit(w) ==
  Only({ IF p.err # NoError THEN Raise(p.w, p.err) ELSE submitPayment(p)
       : p \in {O_process(w)} })

\* the retry of handleFailure, NO_PLUGINS_AVAILABLE swallowed unreported
retry_silent(w, i) ==
  Only({ IF s.err = NoError THEN Ok(s.w, i)
         ELSE IF s.err = NO_PLUGINS_AVAILABLE THEN Ok(s.w, i)
         ELSE Raise(s.w, s.err)
       : s \in {submit(w)} })

\* the try / catch of handleFailure around submit()
retry(w, i) ==
  Only({ IF s.err = NoError THEN Ok(s.w, i)
         ELSE IF s.err = NO_PLUGINS_AVAILABLE
              THEN Ok(Report(s.w, "error", 0, s.err.kind), i)
         ELSE Raise(s.w, s.err)
       : s \in {submit(w)} })

handleFailure(w, i) ==
  Only({ IF f.err # NoError THEN Raise(f.w, f.err)
         ELSE retry(Report(f.w, "update", i, f.w.payments[i].pluginUpdate), i)
       : f \in {PO_failCurrentPlugin(w, i)} })

\* the catch of handleSuccess when order.complete() threw oc.err
outstanding(oc, i) ==
  IF oc.err = OUTSTANDING_PAYMENTS
  THEN Only({ IF s.err # NoError THEN Raise(s.w, s.err)
              ELSE Ok(Report(s.w, "payment_order_partially_complete",
                             0, s.w.order.state), i)
            : s \in {submit(oc.w)} })
  ELSE Raise(oc.w, oc.err)

\* order.complete() as handleSuccess calls it, the order left as it is
completeOrder_skip(w, i) ==
  Ok(w, i)

\* the try / catch of handleSuccess around order.complete()
completeOrder(w, i) ==
  Only({ IF oc.err = NoError THEN Ok(oc.w, i) ELSE outstanding(oc, i)
       : oc \in {O_complete(w)} })

handleSuccess(w, i) ==
  Only({ IF c.err # NoError THEN Raise(c.w, c.err)
         ELSE completeOrder(
                Report(c.w, "payment", i, c.w.payments[i].state.internalState), i)
       : c \in {PO_complete(w, i)} })

\* handlePluginState with two outcomes only: whatever is not a failure is a
\* success
handlePluginState_binary(w, i) ==
  IF w.payments[i].pluginUpdate = PLUGIN_FAILED THEN handleFailure(w, i)
  ELSE handleSuccess(w, i)

handlePluginState(w, i) ==
  IF w.payments[i].pluginUpdate = PLUGIN_FAILED THEN handleFailure(w, i)
  ELSE IF w.payments[i].pluginUpdate = SUCCESS THEN handleSuccess(w, i)
  ELSE Ok(Report(w, "payment", i, w.payments[i].state.internalState), i)

\* stateUpdateCallback that hands the update on before it is written
stateUpdateCallback_unsaved(w, pluginUpdate) ==
  LET i == getPaymentInProgress(w)
  IN  IF i = 0 THEN Raise(w, NO_PAYMENT_IN_PROCESS)
      ELSE handlePluginState(
             Assigned([w EXCEPT !.payments[i].pluginUpdate = pluginUpdate], i), i)

stateUpdateCallback(w, pluginUpdate) ==
  LET i == getPaymentInProgress(w)
  IN  IF i = 0 THEN Raise(w, NO_PAYMENT_IN_PROCESS)
      ELSE handlePluginState(
             update(Assigned([w EXCEPT !.payments[i].pluginUpdate = pluginUpdate],
                             i), i), i)

\* ------------------------------------------------------------------------
\* The sender at work: an order, its plugins, the clock
\* ------------------------------------------------------------------------
PENDING ==
  "pending"

PluginStates ==
  {PLUGIN_FAILED, SUCCESS, PENDING}

RECURSIVE Injective(_)
\* priority lists that name a plugin at most once
Injective(n) ==
  IF n = 0 THEN { << >> }
  ELSE { Append(q, p) : q \in Injective(n - 1), p \in Plugins }

OrderPriorities ==
  { q \in UNION { Injective(n) : n \in 0..MaxPriority } :
      \A i, j \in DOMAIN q : q[i] = q[j] => i = j }

Catalogues ==
  { [readable |-> FALSE, targets |-> {}] }
    \cup { [readable |-> TRUE, targets |-> t] : t \in SUBSET Plugins }

Init ==
  /\ now = 1
  /\ \E frequency \in {0, MIN_FREQUENCY},
        firstPaymentAt \in 1..MaxTime, prio \in OrderPriorities :
       \E lastPaymentAt \in firstPaymentAt..MaxTime :
         LET o == InitOrder(frequency, firstPaymentAt, lastPaymentAt, prio)
         IN  /\ order = o.order
             /\ payments = o.payments
  /\ registry = [p \in Plugins |-> "absent"]
  /\ catalogue \in Catalogues
  /\ payLog = << >>
  /\ cbLog = << >>
  /\ reports = << >>
  /\ lastOp = "init"
  /\ lastErr = NoError
  /\ pm = PmIdle
  /\ incoming = << >>
  /\ receiver = ReceiverIdle
  /\ tasks = << >>

\* an operation has run on the world and left res
Run(op, res) ==
  /\ Len(res.w.payments) <= MaxPayments
  /\ order' = res.w.order
  /\ payments' = res.w.payments
  /\ registry' = res.w.registry
  /\ payLog' = res.w.payLog
  /\ reports' = res.w.reports
  /\ lastOp' = op
  /\ lastErr' = res.err
  /\ UNCHANGED <<now, catalogue, pm, incoming, receiver, tasks>>

Submit ==
  /\ \E res \in {submit(World)} : Run("submit", res)
  /\ UNCHANGED cbLog

\* the plugin the payment in progress is engaged with, NoName if none
Engaged ==
  IF getPaymentInProgress(World) = 0 THEN NoName
  ELSE payments[getPaymentInProgress(World)].state.currentPlugin.name

\* the payments a plugin was asked to pay: each pay() handed out the
\* notificationCallback
Paid ==
  { payLog[k].payment : k \in DOMAIN payLog }

\* a plugin that was handed the notificationCallback by pay() calls it; the
\* sender sees neither the plugin that calls nor the payment the call is
\* about: the log keeps the payment whose pay() handed the callback out and
\* the plugin that is engaged when the call arrives
StateUpdateCallback ==
  /\ Len(cbLog) < MaxCallbacks
  /\ \E i \in Paid, st \in PluginStates :
       \E res \in {stateUpdateCallback(World, st)} :
         /\ Run("stateUpdateCallback", res)
         /\ cbLog' = Append(cbLog, [payment |-> i,
                                    plugin |-> Engaged,
                                    pluginState |-> st,
                                    err |-> res.err])

OrderProcess ==
  /\ \E res \in {O_process(World)} : Run("order.process", res)
  /\ UNCHANGED cbLog

OrderComplete ==
  /\ \E res \in {O_complete(World)} : Run("order.complete", res)
  /\ UNCHANGED cbLog

OrderCancel ==
  /\ \E res \in {O_cancel(World)} : Run("order.cancel", res)
  /\ UNCHANGED cbLog

Tick ==
  /\ now < MaxTime
  /\ now' = now + 1
  /\ lastOp' = "tick"
  /\ lastErr' = NoError
  /\ UNCHANGED <<order, payments, registry, catalogue, payLog, cbLog, reports,
                 pm, incoming, receiver, tasks>>

Next ==
  \/ Submit
  \/ StateUpdateCallback
  \/ OrderProcess
  \/ OrderComplete
  \/ OrderCancel
  \/ Tick

Spec ==
  Init /\ [][Next]_vars

NextSend ==
  \/ Submit
  \/ StateUpdateCallback
  \/ Tick

SpecSend ==
  Init /\ [][NextSend]_vars

\* ------------------------------------------------------------------------
\* Helpers of the properties
\* ------------------------------------------------------------------------
Count(x, seq) ==
  Cardinality({ i \in DOMAIN seq : seq[i] = x })

RunNames(runs) ==
  [i \in DOMAIN runs |-> runs[i].name]

\* the name of a plugin run as a sequence: empty when there is no named run
OptName(run) ==
  IF run.name = NoName THEN << >> ELSE << run.name >>

SamePlugins(held, priority) ==
  \A n \in Plugins \cup {NoName} : Count(n, held) = Count(n, priority)

\* operation op has no transition from internal state s in the transition table
NoTransition(op, s) ==
  CASE op \in {"cancel", "process"} -> s \in {COMPLETED, FAILED, CANCELLED}
    [] op \in {"tryNext", "failCurrentPlugin", "fail", "complete"} ->
         s # IN_PROGRESS
    [] OTHER -> FALSE

\* ------------------------------------------------------------------------
\* C1: once internalState is COMPLETED, FAILED or CANCELLED, no call of
\* process, tryNext, failCurrentPlugin, fail, complete or cancel changes it.
\* ------------------------------------------------------------------------
C1_TerminalAbsorbing ==
  [][isFinal(ps) => ps'.internalState = ps.internalState]_vars

\* cancel was called on a COMPLETED payment
C1_Witness ==
  /\ ps.internalState = COMPLETED
  /\ lastOp = "cancel"
  /\ lastErr = INVALID_STATE(COMPLETED)

\* ------------------------------------------------------------------------
\* C2 as stated: pendingPlugins, currentPlugin.name (when non-nil) and the
\* names of triedPlugins together are a permutation of sendingPriority.
\* ------------------------------------------------------------------------
C2_Original ==
  SamePlugins(ps.pendingPlugins \o OptName(ps.currentPlugin)
                \o RunNames(ps.triedPlugins),
              order.sendingPriority)

\* C2 as amended: pendingPlugins, currentPlugin.name (when non-nil), the
\* names of triedPlugins and the name of completedByPlugin (when a plugin
\* completed the payment) together are a permutation of sendingPriority.
C2_Amended ==
  SamePlugins(ps.pendingPlugins \o OptName(ps.currentPlugin)
                \o RunNames(ps.triedPlugins)
                \o OptName(ps.completedByPlugin),
              order.sendingPriority)

\* a payment completed by its second plugin after the first one failed
C2_Witness ==
  /\ ps.internalState = COMPLETED
  /\ ps.completedByPlugin.name # NoName
  /\ Len(ps.triedPlugins) = 1
  /\ Len(ps.pendingPlugins) = 1

C4_Walk ==
  LET prio == order.sendingPriority
      k == Len(ps.triedPlugins)
  IN  /\ k <= Len(prio)
      /\ ps.triedPlugins =
           [i \in 1..k |-> [name |-> prio[i], state |-> PLUGIN_FAILED]]
      /\ ps.currentPlugin # Nil =>
           /\ k < Len(prio)
           /\ ps.currentPlugin = [name |-> prio[k + 1], state |-> SUBMITTED]
           /\ ps.pendingPlugins = SubSeq(prio, k + 2, Len(prio))
           /\ isInProgress(ps)
      /\ ps.currentPlugin = Nil =>
           ps.pendingPlugins = SubSeq(prio, k + 1, Len(prio))
      /\ isFailed(ps) => k = Len(prio) /\ ps.currentPlugin = Nil

C4_Step ==
  /\ (lastOp' = "process" /\ ~isFinal(ps) /\ ps.currentPlugin = Nil
        /\ ps.pendingPlugins # << >>) =>
       /\ ps'.currentPlugin =
            [name |-> Head(ps.pendingPlugins), state |-> SUBMITTED]
       /\ ps'.pendingPlugins = Tail(ps.pendingPlugins)
       /\ isInProgress(ps')
  /\ (lastOp' = "process" /\ ~isFinal(ps) /\ ps.currentPlugin = Nil
        /\ ps.pendingPlugins = << >>) =>
       isFailed(ps')

C6_Step ==
  (lastOp' = "complete" /\ isInProgress(ps) /\ ps.currentPlugin # Nil) =>
    /\ lastErr' = NoError
    /\ ps' = [ps EXCEPT
                !.internalState = COMPLETED,
                !.completedByPlugin =
                   [name |-> ps.currentPlugin.name, state |-> SUCCESS],
                !.currentPlugin = Nil]

C6_FirstPlugin ==
  (ps.internalState = COMPLETED
     /\ ps.completedByPlugin.name # NoName
     /\ Len(ps.pendingPlugins) + 1 = Len(order.sendingPriority)) =>
    /\ ps.triedPlugins = << >>
    /\ ps.completedByPlugin =
         [name |-> Head(order.sendingPriority), state |-> SUCCESS]
    /\ ps.currentPlugin = Nil

C6_Complete ==
  [] C6_FirstPlugin /\ [][C6_Step]_vars

\* process then complete on a fresh payment with two plugins
C6_Witness ==
  /\ lastOp = "complete"
  /\ lastErr = NoError
  /\ ps.internalState = COMPLETED
  /\ ps.triedPlugins = << >>
  /\ Len(ps.pendingPlugins) = 1

AllTerminal ==
  \A i \in DOMAIN payments : isFinal(payments[i].state)

SomeCompletedBy ==
  \E i \in DOMAIN payments : payments[i].state.completedByPlugin # Nil

\* C8 as stated: the order is COMPLETED exactly when every payment is in a
\* terminal internal state and at least one payment has a completedByPlugin.
C8_Original ==
  (order.state = ORDER_COMPLETED_STATE) <=> (AllTerminal /\ SomeCompletedBy)

\* C8 (amended): in every reachable state a COMPLETED order has only
\* payments in a terminal internal state.  Neither the converse nor a
\* completedByPlugin follows: order.complete() succeeds on payments that all
\* failed and on a recurring order without payments, and a cancelled order
\* keeps the payments that were completed before.
C8_Amended ==
  order.state = ORDER_COMPLETED_STATE => AllTerminal

\* the sender's success handling completed the order of a paid payment
C8_Witness ==
  /\ order.state = ORDER_COMPLETED_STATE
  /\ lastOp = "stateUpdateCallback"
  /\ lastErr = NoError
  /\ SomeCompletedBy
  /\ AllTerminal

\* the callbacks received so far are exactly these plugin states, the k-th
\* one arriving while the k-th plugin of the priority list is engaged
Answered(states) ==
  /\ Len(cbLog) = Len(states)
  /\ Len(states) <= Len(order.sendingPriority)
  /\ \A k \in DOMAIN states :
       /\ cbLog[k].plugin = order.sendingPriority[k]
       /\ cbLog[k].pluginState = states[k]

\* C9: one-time order, priority [A, B], payment due; after submit(), a
\* 'failed' callback from A and a 'success' callback from B, the order is
\* COMPLETED, the payment COMPLETED, triedPlugins = [A FAILED] and
\* completedByPlugin.name = B.
C9_FailThenSucceed ==
  ( /\ order.frequency = 0
    /\ Len(order.sendingPriority) = 2
    /\ Answered(<<PLUGIN_FAILED, SUCCESS>>) )
  => /\ order.state = ORDER_COMPLETED_STATE
     /\ Len(payments) = 1
     /\ payments[1].state.internalState = COMPLETED
     /\ payments[1].state.triedPlugins
          = << [name |-> order.sendingPriority[1], state |-> PLUGIN_FAILED] >>
     /\ payments[1].state.completedByPlugin.name = order.sendingPriority[2]
     /\ payments[1].state.currentPlugin = Nil
     /\ \A k \in DOMAIN cbLog : cbLog[k].err = NoError

\* A failed, B succeeded
C9_Witness ==
  /\ order.frequency = 0
  /\ Len(order.sendingPriority) = 2
  /\ Answered(<<PLUGIN_FAILED, SUCCESS>>)
  /\ Len(payLog) = 2
  /\ order.state = ORDER_COMPLETED_STATE

\* every plugin of the one-time order was asked to pay, in the order of the
\* priority list, and each answered 'failed'
AllAnsweredFailed ==
  /\ order.frequency = 0
  /\ Len(order.sendingPriority) >= 1
  /\ Len(payLog) = Len(order.sendingPriority)
  /\ \A k \in DOMAIN payLog : payLog[k].plugin = order.sendingPriority[k]
  /\ Answered([k \in DOMAIN order.sendingPriority |-> PLUGIN_FAILED])

\* C10: when every plugin of a one-time order's priority list answers its
\* pay invocation with 'failed', the last thing the entry-point callback
\* receives is the NO_PLUGINS_AVAILABLE error, the payment is FAILED and the
\* last callback returned without an exception.
C10_AllFailed ==
  AllAnsweredFailed
  => /\ reports # << >>
     /\ reports[Len(reports)]
          = [kind |-> "error", payment |-> 0, what |-> NO_PLUGINS_AVAILABLE.kind]
     /\ payments[1].state.internalState = FAILED
     /\ cbLog[Len(cbLog)].err = NoError
     /\ order.state = PROCESSING

\* two plugins were tried and both answered 'failed'
C10_Witness ==
  /\ AllAnsweredFailed
  /\ Len(order.sendingPriority) = 2
  /\ isFailed(payments[1].state)
  /\ Len(reports) = 3

\* ------------------------------------------------------------------------
\* Late callbacks
\* ------------------------------------------------------------------------
\* this step delivers a callback about a payment that is already final
LateCallback ==
  /\ Len(cbLog') = Len(cbLog) + 1
  /\ isFinal(payments[cbLog'[Len(cbLog')].payment].state)

\* the internal state of every payment and the state of the order stay
SamePaymentStates ==
  /\ Len(payments') = Len(payments)
  /\ \A i \in DOMAIN payments : payments'[i].state = payments[i].state
  /\ order' = order

\* C11 as stated: a plugin callback delivered after the payment it concerns
\* has reached a terminal state (also after order.cancel()) is dropped
\* without raising and changes no payment's state nor the order's state.
C11_Original ==
  [][LateCallback => (lastErr' = NoError /\ SamePaymentStates)]_vars

\* ------------------------------------------------------------------------
\* order.cancel() and order.complete()
\* ------------------------------------------------------------------------
\* C12: order.cancel() on an order that is not COMPLETED returns, leaves the
\* order CANCELLED, every payment that was not final CANCELLED, and every
\* payment that was final in the internal state it had.
C12_Step ==
  (lastOp' = "order.cancel" /\ order.state # ORDER_COMPLETED_STATE)
  => /\ lastErr' = NoError
     /\ order'.state = ORDER_CANCELLED_STATE
     /\ Len(payments') = Len(payments)
     /\ \A i \in DOMAIN payments :
          IF isFinal(payments[i].state)
          THEN payments'[i].state = payments[i].state
          ELSE payments'[i].state.internalState = CANCELLED

C13_Step ==
  lastOp' = "order.complete"
  => /\ payments' = payments
     /\ IF order.state = ORDER_CANCELLED_STATE
        THEN lastErr' = ORDER_CANCELLED /\ order' = order
        ELSE IF order.state = ORDER_COMPLETED_STATE
        THEN lastErr' = ORDER_COMPLETED /\ order' = order
        ELSE IF ~AllTerminal
        THEN lastErr' = OUTSTANDING_PAYMENTS /\ order' = order
        ELSE /\ lastErr' = NoError
             /\ order' = [order EXCEPT !.state = ORDER_COMPLETED_STATE]

C13_Complete ==
  [][C13_Step]_vars

\* complete() was refused while a payment was in progress
C13_Witness ==
  /\ lastOp = "order.complete"
  /\ lastErr = OUTSTANDING_PAYMENTS
  /\ order.state = PROCESSING
  /\ \E i \in DOMAIN payments : isInProgress(payments[i].state)

\* ------------------------------------------------------------------------
\* init() of an order: the payments it creates
\* ------------------------------------------------------------------------
MaxInitFrequency ==
  3

MaxSpan ==
  5

\* milliseconds are counted one by one or by the thousand
TimeUnits ==
  {1, 1000}

\* an order constructed and not yet initialised: frequency 0 (one-time) or
\* a multiple of the unit, lastPaymentAt before, at or after firstPaymentAt,
\* on and off the multiples of the unit
InitCreated ==
  /\ \E unit \in TimeUnits, a \in 0..MaxInitFrequency,
        firstPaymentAt \in 1..2, prio \in OrderPriorities :
       \E span \in {0 - unit} \cup { unit * b : b \in 0..MaxSpan }
                   \cup { unit * b + unit - 1 : b \in 0..MaxSpan } :
         order = construct(unit * a, firstPaymentAt, firstPaymentAt + span, prio)
  /\ payments = << >>
  /\ now = 1
  /\ registry = [p \in Plugins |-> "absent"]
  /\ catalogue = [readable |-> TRUE, targets |-> Plugins]
  /\ payLog = << >>
  /\ cbLog = << >>
  /\ reports = << >>
  /\ lastOp = "new"
  /\ lastErr = NoError
  /\ pm = PmIdle
  /\ incoming = << >>
  /\ receiver = ReceiverIdle
  /\ tasks = << >>

OrderInit ==
  /\ order.state = CREATED
  /\ order' = O_init(order).order
  /\ payments' = O_init(order).payments
  /\ lastOp' = "order.init"
  /\ lastErr' = NoError
  /\ UNCHANGED <<now, registry, catalogue, payLog, cbLog, reports, pm,
                 incoming, receiver, tasks>>

NextInit ==
  OrderInit

SpecInit ==
  InitCreated /\ [][NextInit]_vars

\* n is the quotient of span by f, rounded down
IsFloorOf(n, span, f) ==
  /\ n * f <= span
  /\ span < (n + 1) * f

CONFLICT ==
  Err("CONFLICT", "")

FAILED_TO_LOAD(entryPoint) ==
  Err("FAILED_TO_LOAD", entryPoint)

PLUGIN_NOT_FOUND(name) ==
  Err("PLUGIN.NOT_FOUND", name)

PLUGIN_STOP(msg) ==
  Err("PLUGIN.STOP", msg)

PLUGIN_INIT(msg) ==
  Err("PLUGIN.INIT", msg)

PLUGIN_GET_MANIFEST(msg) ==
  Err("PLUGIN.GET_MANIFEST", msg)

\* the message of the error a plugin method throws
Message(name, method) ==
  name \o "." \o method \o " failed"

EventNames ==
  {"event1", "event2"}

\* the events a manifest lists: none, one, both
ManifestEvents ==
  {{}, {"event1"}, {"event1", "event2"}}

\* a plugin module: the name and the events of its manifest, whether the
\* plugin has a stop(), whether init() and getmanifest() throw; a module
\* that throws has no more to tell
Modules ==
  { module \in [name : Plugins,
                type : {"payment"},
                events : ManifestEvents,
                hasStop : BOOLEAN,
                init : {"ok", "throws"},
                getmanifest : {"ok", "throws"}] :
      (module.init = "throws" \/ module.getmanifest = "throws")
        => /\ module.events = {}
           /\ ~module.hasStop
           /\ module.init # module.getmanifest }

\* the entry kept of a module
Entry(module) ==
  [type |-> module.type,
   events |-> module.events,
   stop |-> IF module.hasStop THEN "function" ELSE "undefined"]

\* the manager: this.plugins, as the registry (is there an entry, is it
\* active), the plugin behind each entry and the keys in insertion order
Manager ==
  [registry |-> registry, plugin |-> pm.plugin, keys |-> pm.keys]

\* outcome of a manager method: the manager it leaves, what it threw, what
\* it returned, the plugin methods it called
Done(m, ret, calls) ==
  [m |-> m, err |-> NoError, ret |-> ret, calls |-> calls]

Failed(m, e, calls) ==
  [m |-> m, err |-> e, ret |-> NoName, calls |-> calls]

Call(name, method) ==
  [plugin |-> name, method |-> method]

\* injectPlugin that overwrites an entry of the same name
PM_injectPlugin_overwrite(m, module) ==
  IF module.init = "throws"
  THEN Failed(m, PLUGIN_INIT(Message(module.name, "init")),
              <<Call(module.name, "init")>>)
  ELSE IF module.getmanifest = "throws"
  THEN Failed(m, PLUGIN_GET_MANIFEST(Message(module.name, "getmanifest")),
              <<Call(module.name, "init"), Call(module.name, "getmanifest")>>)
  ELSE Done([registry |-> [m.registry EXCEPT ![module.name] = "active"],
             plugin |-> [m.plugin EXCEPT ![module.name] = Entry(module)],
             keys |-> IF m.registry[module.name] = "absent"
                      THEN Append(m.keys, module.name) ELSE m.keys],
            module.name,
            <<Call(module.name, "init"), Call(module.name, "getmanifest")>>)

\* injectPlugin(module): initPlugin, getManifest, then the new entry
PM_injectPlugin(m, module) ==
  IF module.init = "throws"
  THEN Failed(m, PLUGIN_INIT(Message(module.name, "init")),
              <<Call(module.name, "init")>>)
  ELSE IF module.getmanifest = "throws"
  THEN Failed(m, PLUGIN_GET_MANIFEST(Message(module.name, "getmanifest")),
              <<Call(module.name, "init"), Call(module.name, "getmanifest")>>)
  ELSE IF m.registry[module.name] # "absent"
  THEN Failed(m, CONFLICT,
              <<Call(module.name, "init"), Call(module.name, "getmanifest")>>)
  ELSE Done([registry |-> [m.registry EXCEPT ![module.name] = "active"],
             plugin |-> [m.plugin EXCEPT ![module.name] = Entry(module)],
             keys |-> Append(m.keys, module.name)],
            module.name,
            <<Call(module.name, "init"), Call(module.name, "getmanifest")>>)

\* loadPlugin(entryPoint): found tells whether loadByPathOrName finds the
\* module
PM_loadPlugin(m, module, found) ==
  IF ~found THEN Failed(m, FAILED_TO_LOAD(module.name), << >>)
  ELSE PM_injectPlugin(m, module)

\* stopPlugin that marks the entry inactive without calling stop()
PM_stopPlugin_noCall(m, name, throwers) ==
  IF m.registry[name] = "absent" THEN Failed(m, PLUGIN_NOT_FOUND(name), << >>)
  ELSE Done([m EXCEPT !.registry[name] = "inactive"], NoName, << >>)

\* stopPlugin(name): throwers are the plugins whose stop() throws this time
PM_stopPlugin(m, name, throwers) ==
  IF m.registry[name] = "absent" THEN Failed(m, PLUGIN_NOT_FOUND(name), << >>)
  ELSE IF m.plugin[name].stop # "function"
  THEN Done([m EXCEPT !.registry[name] = "inactive"], NoName, << >>)
  ELSE IF name \in throwers
  THEN Failed(m, PLUGIN_STOP(Message(name, "stop")), <<Call(name, "stop")>>)
  ELSE Done([m EXCEPT !.registry[name] = "inactive"], NoName,
            <<Call(name, "stop")>>)

\* the keys without name
Without(keys, name) ==
  SelectSeq(keys, LAMBDA k : k # name)

\* removePlugin that also deletes an active entry
PM_removePlugin_force(m, name) ==
  IF m.registry[name] = "absent" THEN Failed(m, PLUGIN_NOT_FOUND(name), << >>)
  ELSE Done([registry |-> [m.registry EXCEPT ![name] = "absent"],
             plugin |-> [m.plugin EXCEPT ![name] = NoPlugin],
             keys |-> Without(m.keys, name)], "true", << >>)

PM_removePlugin(m, name) ==
  IF m.registry[name] = "absent" THEN Failed(m, PLUGIN_NOT_FOUND(name), << >>)
  ELSE IF m.registry[name] = "active" THEN Done(m, "false", << >>)
  ELSE Done([registry |-> [m.registry EXCEPT ![name] = "absent"],
             plugin |-> [m.plugin EXCEPT ![name] = NoPlugin],
             keys |-> Without(m.keys, name)], "true", << >>)

RECURSIVE stopFrom(_, _, _, _)
\* the loop of gracefulThrow: the plugins under keys k, k+1, ... are stopped
\* in turn, the first stopPlugin that throws ends the loop
stopFrom(m, k, throwers, calls) ==
  IF k > Len(m.keys) THEN Done(m, NoName, calls)
  ELSE Only({ IF r.err # NoError THEN Failed(r.m, r.err, calls \o r.calls)
              ELSE stopFrom(r.m, k + 1, throwers, calls \o r.calls)
            : r \in {PM_stopPlugin(m, m.keys[k], throwers)} })

\* gracefulThrow(error): stop every plugin, then throw error
PM_gracefulThrow(m, error, throwers) ==
  Only({ IF r.err # NoError THEN r ELSE Failed(r.m, error, r.calls)
       : r \in {stopFrom(m, 1, throwers, << >>)} })

\* the keys of the entries dispatchEvent hands the event to
Subscribed(m, event) ==
  SelectSeq(m.keys, LAMBDA k : event \in m.plugin[k].events
                               /\ m.registry[k] = "active")

\* what the wrapper around a handler saw: the handler returned, or it threw
\* and the wrapper caught and logged that
Handled(name, event, throwers) ==
  [plugin |-> name, method |-> event,
   outcome |-> IF name \in throwers THEN "caught" ELSE "returned"]

\* dispatchEvent that hands the event to every entry
PM_dispatchEvent_all(m, event, throwers) ==
  Done(m, NoName,
       [i \in DOMAIN m.keys |-> Handled(m.keys[i], event, throwers)])

\* dispatchEvent(event, data): the handler of every subscribed active entry
\* is called inside its own try/catch; Promise.all waits for all of them
PM_dispatchEvent(m, event, throwers) ==
  Only({ Done(m, NoName,
              [i \in DOMAIN subs |-> Handled(subs[i], event, throwers)])
       : subs \in {Subscribed(m, event)} })

\* ------------------------------------------------------------------------
\* The plugin manager at work
\* ------------------------------------------------------------------------
ERROR_PASSED ==
  Err("error passed to gracefulThrow", "")

InitPlugins ==
  /\ order = NewOrder(CREATED, 0, 1, 1, << >>)
  /\ payments = << >>
  /\ now = 1
  /\ registry = [p \in Plugins |-> "absent"]
  /\ catalogue = [readable |-> TRUE, targets |-> Plugins]
  /\ payLog = << >>
  /\ cbLog = << >>
  /\ reports = << >>
  /\ lastOp = "new"
  /\ lastErr = NoError
  /\ pm = PmIdle
  /\ incoming = << >>
  /\ receiver = ReceiverIdle
  /\ tasks = << >>

\* a manager method has run on arg and left r
Manage(op, arg, r) ==
  /\ registry' = r.m.registry
  /\ pm' = [plugin |-> r.m.plugin, keys |-> r.m.keys, arg |-> arg,
            calls |-> r.calls, ret |-> r.ret]
  /\ lastOp' = op
  /\ lastErr' = r.err
  /\ UNCHANGED <<order, payments, now, catalogue, payLog, cbLog, reports,
                 incoming, receiver, tasks>>

InjectPlugin ==
  \E module \in Modules :
    \E r \in {PM_injectPlugin(Manager, module)} : Manage("injectPlugin", module.name, r)

\* the module loadByPathOrName finds under an entry point: the one the
\* configuration or the path holds for the name
Configured(name) ==
  [name |-> name, type |-> "payment", events |-> EventNames,
   hasStop |-> TRUE, init |-> "ok", getmanifest |-> "ok"]

LoadPlugin ==
  \E name \in Plugins, found \in BOOLEAN :
    \E r \in {PM_loadPlugin(Manager, Configured(name), found)} :
      Manage("loadPlugin", name, r)

StopPlugin ==
  \E name \in Plugins, throws \in BOOLEAN :
    \E r \in {PM_stopPlugin(Manager, name,
                             IF throws THEN {name} ELSE {})} :
      Manage("stopPlugin", name, r)

RemovePlugin ==
  \E name \in Plugins :
    \E r \in {PM_removePlugin(Manager, name)} : Manage("removePlugin", name, r)

\* the plugins of the keys
Named(keys) ==
  {keys[i] : i \in DOMAIN keys}

DispatchEvent ==
  \E event \in EventNames :
    \E throwers \in SUBSET Named(Subscribed(Manager, event)) :
      \E r \in {PM_dispatchEvent(Manager, event, throwers)} :
        Manage("dispatchEvent", event, r)

GracefulThrow ==
  \E throwers \in SUBSET Named(pm.keys) :
    \E r \in {PM_gracefulThrow(Manager, ERROR_PASSED, throwers)} :
      Manage("gracefulThrow", NoName, r)

NextPlugins ==
  \/ InjectPlugin
  \/ LoadPlugin
  \/ StopPlugin
  \/ RemovePlugin
  \/ DispatchEvent
  \/ GracefulThrow

SpecPlugins ==
  InitPlugins /\ [][NextPlugins]_vars

\* ------------------------------------------------------------------------
\* Properties of the plugin manager
\* ------------------------------------------------------------------------
\* the entries other than those of names are what they were
OthersKept(names) ==
  \A p \in Plugins \ names :
    registry'[p] = registry[p] /\ pm'.plugin[p] = pm.plugin[p]

\* the whole registry is what it was
RegistryKept ==
  /\ OthersKept({})
  /\ pm'.keys = pm.keys

\* injectPlugin or loadPlugin got the manifest of its module
GotManifest ==
  /\ lastOp' \in {"injectPlugin", "loadPlugin"}
  /\ pm'.calls = <<Call(pm'.arg, "init"), Call(pm'.arg, "getmanifest")>>
  /\ lastErr'.kind # "PLUGIN.GET_MANIFEST"

C15_Step ==
  (GotManifest /\ registry[pm'.arg] # "absent")
    => lastErr' = CONFLICT /\ RegistryKept

\* C15: injecting or loading a plugin whose manifest name is already in the
\* registry, active or inactive, raises CONFLICT and leaves the registry as
\* it was: the entry, its plugin and its active flag are kept
C15_Conflict ==
  [][C15_Step]_vars

\* a load was refused over an entry that had been stopped
C15_Witness ==
  /\ lastOp = "loadPlugin"
  /\ lastErr = CONFLICT
  /\ registry[pm.arg] = "inactive"
  /\ pm.plugin[pm.arg].events # {}

C16_Step ==
  /\ (lastOp' = "removePlugin" /\ registry[pm'.arg] = "active")
       => pm'.ret = "false" /\ lastErr' = NoError /\ RegistryKept
  /\ (lastOp' = "removePlugin" /\ registry[pm'.arg] = "inactive")
       => /\ pm'.ret = "true"
          /\ lastErr' = NoError
          /\ registry'[pm'.arg] = "absent"
          /\ pm'.keys = Without(pm.keys, pm'.arg)
          /\ OthersKept({pm'.arg})
  /\ \A p \in Plugins :
       (registry[p] # "absent" /\ registry'[p] = "absent")
         => /\ lastOp' = "removePlugin"
            /\ pm'.arg = p
            /\ registry[p] = "inactive"
  /\ \A p \in Plugins :
       (registry[p] = "active" /\ registry'[p] = "inactive")
         => lastOp' \in {"stopPlugin", "gracefulThrow"}

\* C16: removePlugin(name) on an active entry returns false and leaves the
\* entry; on an inactive entry it deletes the entry and returns true; an
\* entry leaves the registry only through removePlugin, after it was stopped
C16_Remove ==
  [][C16_Step]_vars

\* a stopped entry was removed while another entry stays
C16_Witness ==
  /\ lastOp = "removePlugin"
  /\ pm.ret = "true"
  /\ registry[pm.arg] = "absent"
  /\ \E p \in Plugins : registry[p] = "active"

C17_Step ==
  (lastOp' = "stopPlugin" /\ registry[pm'.arg] # "absent")
    => /\ OthersKept({pm'.arg})
       /\ pm'.keys = pm.keys
       /\ pm'.plugin = pm.plugin
       /\ pm'.calls = IF pm.plugin[pm'.arg].stop = "function"
                      THEN <<Call(pm'.arg, "stop")>> ELSE << >>
       /\ \/ lastErr' = NoError /\ registry'[pm'.arg] = "inactive"
          \/ /\ pm.plugin[pm'.arg].stop = "function"
             /\ lastErr' = PLUGIN_STOP(Message(pm'.arg, "stop"))
             /\ registry'[pm'.arg] = registry[pm'.arg]

\* C17: stopPlugin(name) on a registered plugin calls the plugin's stop()
\* when it is defined and marks the entry inactive; when stop() raises,
\* stopPlugin raises PLUGIN.STOP with the message of what stop() raised
C17_Stop ==
  [][C17_Step]_vars

\* stop() of an active plugin raised
C17_Witness ==
  /\ lastOp = "stopPlugin"
  /\ lastErr = PLUGIN_STOP(Message(pm.arg, "stop"))
  /\ pm.calls = <<Call(pm.arg, "stop")>>
  /\ registry[pm.arg] = "active"

\* C18: gracefulThrow(err) stops every registered plugin, one after the
\* other, and then raises err: when it has raised, every registry entry is
\* inactive and the error raised is err
C18_Original ==
  [][lastOp' = "gracefulThrow"
       => /\ lastErr' = ERROR_PASSED
          /\ \A p \in Plugins : registry'[p] # "active"]_vars

\* the calls of pm.calls made on plugin p
CallsOn(calls, p) ==
  {i \in DOMAIN calls : calls[i].plugin = p}

C19_Step ==
  lastOp' = "dispatchEvent"
    => /\ lastErr' = NoError
       /\ RegistryKept
       /\ \A i \in DOMAIN pm'.calls : pm'.calls[i].method = pm'.arg
       /\ \A p \in Plugins :
            Cardinality(CallsOn(pm'.calls, p))
              = IF registry[p] = "active" /\ pm'.arg \in pm.plugin[p].events
                THEN 1 ELSE 0

MaxAmount ==
  3

MaxRecords ==
  4

PAYMENT_OBJECT_NOT_FOUND ==
  Err("PAYMENT_OBJECT_NOT_FOUND", "")

PAYMENT_CURRENCY_MISMATCH ==
  Err("PAYMENT_CURRENCY_MISMATCH", "")

PAYMENT_DENOMINATION_MISMATCH ==
  Err("PAYMENT_DENOMINATION_MISMATCH", "")

\* Amount accepts a non-negative amount in BASE units
Amounts ==
  0..MaxAmount

ClientOrderIds ==
  {"inv-9"}

\* outcome of a receiver method: the db it leaves, what it threw, the
\* missing amount it computed (NoAmount for null)
Received(db, missing) ==
  [db |-> db, err |-> NoError, missing |-> missing]

Refused(db, e) ==
  [db |-> db, err |-> e, missing |-> NoAmount]

\* createPayment(payload, initial): the PaymentIncoming that is saved; its
\* id is its place in the db
createPayment(db, payload, initial) ==
  Append(db,
    IF initial
    THEN [clientOrderId |-> payload.clientOrderId,
          expectedAmount |-> payload.expectedAmount,
          expectedCurrency |-> payload.expectedCurrency,
          expectedDenomination |-> payload.expectedDenomination,
          receivedByPlugins |-> << >>,
          amount |-> NoAmount,
          internalState |-> IN_PROGRESS]
    ELSE [clientOrderId |-> payload.clientOrderId,
          expectedAmount |-> NoAmount,
          expectedCurrency |-> NoName,
          expectedDenomination |-> NoName,
          receivedByPlugins |-> <<[name |-> payload.pluginName,
                                   amount |-> payload.amount]>>,
          amount |-> IF payload.isPersonalPayment THEN NoAmount
                     ELSE payload.amount,
          internalState |-> COMPLETED])

\* createInvoice(clientOrderId, expectedAmount): the receive event is
\* dispatched and the initial incoming payment is saved
createInvoice(db, clientOrderId, expectedAmount) ==
  createPayment(db, [clientOrderId |-> clientOrderId,
                     expectedAmount |-> expectedAmount,
                     expectedCurrency |-> "BTC",
                     expectedDenomination |-> "BASE"], TRUE)

RECURSIVE totalReceivedAmount(_)
\* receivedByPlugins.reduce((acc, { amount }) => acc + parseInt(amount), 0)
totalReceivedAmount(received) ==
  IF received = << >> THEN 0
  ELSE received[Len(received)].amount
       + totalReceivedAmount(SubSeq(received, 1, Len(received) - 1))

\* the internalState updatePayment writes for a total and an expected amount
reconciled(total, expected) ==
  IF total >= expected THEN COMPLETED ELSE IN_PROGRESS

\* updatePayment that leaves the internalState as it was
updatePayment_keepState(db, payload) ==
  IF payload.id \notin DOMAIN db THEN Refused(db, PAYMENT_OBJECT_NOT_FOUND)
  ELSE IF db[payload.id].expectedCurrency # payload.currency
  THEN Refused(db, PAYMENT_CURRENCY_MISMATCH)
  ELSE IF db[payload.id].expectedDenomination # payload.denomination
  THEN Refused(db, PAYMENT_DENOMINATION_MISMATCH)
  ELSE Only({
    Received([db EXCEPT ![payload.id].receivedByPlugins = list,
                        ![payload.id].amount =
                           IF payload.amount = db[payload.id].expectedAmount
                           THEN payload.amount ELSE @],
             IF totalReceivedAmount(list) >= db[payload.id].expectedAmount
             THEN NoAmount
             ELSE db[payload.id].expectedAmount - totalReceivedAmount(list))
    : list \in {Append(db[payload.id].receivedByPlugins,
                       [name |-> payload.pluginName,
                        amount |-> payload.amount])} })

updatePayment(db, payload) ==
  IF payload.id \notin DOMAIN db THEN Refused(db, PAYMENT_OBJECT_NOT_FOUND)
  ELSE IF db[payload.id].expectedCurrency # payload.currency
  THEN Refused(db, PAYMENT_CURRENCY_MISMATCH)
  ELSE IF db[payload.id].expectedDenomination # payload.denomination
  THEN Refused(db, PAYMENT_DENOMINATION_MISMATCH)
  ELSE Only({
    Received([db EXCEPT ![payload.id].receivedByPlugins = list,
                        ![payload.id].amount =
                           IF payload.amount = db[payload.id].expectedAmount
                           THEN payload.amount ELSE @,
                        ![payload.id].internalState =
                           reconciled(totalReceivedAmount(list),
                                      db[payload.id].expectedAmount)],
             IF totalReceivedAmount(list) >= db[payload.id].expectedAmount
             THEN NoAmount
             ELSE db[payload.id].expectedAmount - totalReceivedAmount(list))
    : list \in {Append(db[payload.id].receivedByPlugins,
                       [name |-> payload.pluginName,
                        amount |-> payload.amount])} })

\* the URL createInvoice returns: that of the encrypted slashpay file of
\* the invoice
InvoiceURL(clientOrderId) ==
  "slashpay/" \o clientOrderId \o "/slashpay.json"

\* the path getUrlParams gives for a plugin when there is no clientOrderId
PublicPath(name) ==
  "/public/slashpay/" \o name \o "/slashpay.json"

\* getListOfSupportedPaymentMethods(): the active plugins of type payment
getListOfSupportedPaymentMethods(m) ==
  SelectSeq(m.keys, LAMBDA k : m.registry[k] = "active"
                               /\ m.plugin[k].type = "payment")

\* generateSlashpayContent that lists every registered plugin
generateSlashpayContent_all(names) ==
  {<<p, PublicPath(p)>> : p \in Plugins}

\* generateSlashpayContent(paymentPluginNames): paymentEndpoints, as the
\* pairs of a name and the URL of its path
generateSlashpayContent(names) ==
  {<<names[i], PublicPath(names[i])>> : i \in DOMAIN names}

\* what handleNewPayment leaves: the db, what it threw, and what it did
Outcome(db, e, id, inits, invoice, notified) ==
  [db |-> db, err |-> e,
   did |-> [inits |-> inits, invoice |-> invoice, notified |-> notified],
   id |-> id]

\* the result handed to notificationCallback for the payment under id
Result(db, id, amountDue, invoiceURL) ==
  [id |-> id, internalState |-> db[id].internalState,
   amountDue |-> amountDue, invoiceURL |-> invoiceURL]

\* handleNewPayment that creates no invoice for the rest
handleNewPayment_noInvoice(db, payload) ==
  IF payload.isPersonalPayment
  THEN Only({ IF r.err # NoError
              THEN Outcome(db, r.err, payload.id, 0, NoAmount, NoResult)
              ELSE Outcome(r.db, NoError, payload.id, 1, NoAmount,
                           Result(r.db, payload.id, NoAmount, NoName))
            : r \in {updatePayment(db, payload)} })
  ELSE Only({ Outcome(d, NoError, Len(d), 1, NoAmount,
                      Result(d, Len(d), NoAmount, NoName))
            : d \in {createPayment(db, payload, FALSE)} })

\* handleNewPayment that notifies and regenerates although updatePayment
\* threw
handleNewPayment_swallow(db, payload) ==
  IF payload.isPersonalPayment
  THEN Only({ IF r.err # NoError
              THEN Outcome(db, r.err, payload.id, 1, NoAmount, NoResult)
              ELSE IF r.missing = NoAmount
              THEN Outcome(r.db, NoError, payload.id, 1, NoAmount,
                           Result(r.db, payload.id, NoAmount, NoName))
              ELSE Outcome(createInvoice(r.db, payload.clientOrderId,
                                         r.missing),
                           NoError, payload.id, 1, r.missing,
                           Result(r.db, payload.id, r.missing,
                                  InvoiceURL(payload.clientOrderId)))
            : r \in {updatePayment(db, payload)} })
  ELSE Only({ Outcome(d, NoError, Len(d), 1, NoAmount,
                      Result(d, Len(d), NoAmount, NoName))
            : d \in {createPayment(db, payload, FALSE)} })

\* handleNewPayment(payload): a personal payment is reconciled and, when an
\* amount is still due, an invoice for the rest is created; any other
\* payment is saved as a payment of its own; init() regenerates the public
\* slashpay file and the result is notified
handleNewPayment(db, payload) ==
  IF payload.isPersonalPayment
  THEN Only({ IF r.err # NoError
              THEN Outcome(db, r.err, payload.id, 0, NoAmount, NoResult)
              ELSE IF r.missing = NoAmount
              THEN Outcome(r.db, NoError, payload.id, 1, NoAmount,
                           Result(r.db, payload.id, NoAmount, NoName))
              ELSE Outcome(createInvoice(r.db, payload.clientOrderId,
                                         r.missing),
                           NoError, payload.id, 1, r.missing,
                           Result(r.db, payload.id, r.missing,
                                  InvoiceURL(payload.clientOrderId)))
            : r \in {updatePayment(db, payload)} })
  ELSE Only({ Outcome(d, NoError, Len(d), 1, NoAmount,
                      Result(d, Len(d), NoAmount, NoName))
            : d \in {createPayment(db, payload, FALSE)} })

\* the payloads a plugin hands to the notification callback
Payloads ==
  [id : 1..MaxRecords,
   isPersonalPayment : BOOLEAN,
   clientOrderId : ClientOrderIds,
   pluginName : {"p2sh"},
   amount : Amounts,
   currency : {"BTC", "USD"},
   denomination : {"BASE", "MAIN"}]

\* records and receipts the db holds
Weight(db) ==
  Len(db) + Cardinality({<<i, k>> \in (DOMAIN db) \X (1..(MaxRecords + 1)) :
                           k <= Len(db[i].receivedByPlugins)})

\* a receiver over an empty db
InitReceive ==
  InitPlugins

\* init(): the slashpay file of the supported payment methods is written,
\* receivePayment is dispatched, the receiver is ready
R_init(m) ==
  [slashpay |->
     generateSlashpayContent(getListOfSupportedPaymentMethods(m)),
   calls |-> PM_dispatchEvent(m, "receivePayment", {}).calls]

\* a handler of the receiver has run: times tells how often it dispatched
\* receivePayment
Receive(op, out, times) ==
  /\ incoming' = out.db
  /\ receiver' =
       [ready |-> receiver.ready \/ times > 0,
        written |-> receiver.written \/ out.did.inits > 0,
        slashpay |-> IF out.did.inits > 0 THEN R_init(Manager).slashpay
                     ELSE receiver.slashpay,
        did |-> out.did,
        id |-> out.id]
  /\ pm' = IF times = 0 THEN pm
           ELSE [pm EXCEPT !.arg = "receivePayment", !.ret = NoName,
                           !.calls = IF times = 1 THEN R_init(Manager).calls
                                     ELSE R_init(Manager).calls
                                          \o R_init(Manager).calls]
  /\ lastOp' = op
  /\ lastErr' = out.err
  /\ UNCHANGED <<order, payments, now, registry, catalogue, payLog, cbLog,
                 reports, tasks>>

CreateInvoice ==
  /\ Weight(incoming) < MaxRecords
  /\ \E clientOrderId \in ClientOrderIds, expectedAmount \in Amounts :
       \E db \in {createInvoice(incoming, clientOrderId, expectedAmount)} :
         Receive("createInvoice",
                 Outcome(db, NoError, Len(db), 0, NoAmount, NoResult), 1)

HandleNewPayment ==
  /\ Weight(incoming) < MaxRecords
  /\ \E payload \in Payloads :
       \E out \in {handleNewPayment(incoming, payload)} :
         /\ payload.id <= Len(incoming) + 1
         /\ Receive("handleNewPayment", out,
                    out.did.inits
                      + IF out.did.invoice = NoAmount THEN 0 ELSE 1)

NextReceive ==
  \/ CreateInvoice
  \/ HandleNewPayment

SpecReceive ==
  InitReceive /\ [][NextReceive]_vars

\* ------------------------------------------------------------------------
\* The receiver publishing its slashpay file
\* ------------------------------------------------------------------------
\* the modules of the plugins a receiver works with: payment plugins and
\* others, all listening to receivePayment
ReceiverModules ==
  [name : Plugins,
   type : {"payment", "other"},
   events : {{"receivePayment"}},
   hasStop : {TRUE},
   init : {"ok"},
   getmanifest : {"ok"}]

InjectModule ==
  \E module \in ReceiverModules :
    \E r \in {PM_injectPlugin(Manager, module)} :
      Manage("injectPlugin", module.name, r)

ReceiverInit ==
  \E out \in {Outcome(incoming, NoError, 0, 1, NoAmount, NoResult)} :
    Receive("receiver.init", out, 1)

NextCatalogue ==
  \/ InjectModule
  \/ StopPlugin
  \/ RemovePlugin
  \/ ReceiverInit

SpecCatalogue ==
  InitReceive /\ [][NextCatalogue]_vars

\* ------------------------------------------------------------------------
\* Properties of the receiver
\* ------------------------------------------------------------------------
\* the received amounts of an incoming payment reach its expected amount
Covered(p) ==
  /\ p.expectedAmount # NoAmount
  /\ totalReceivedAmount(p.receivedByPlugins) >= p.expectedAmount

\* C20: in every reachable state of the receiver's db, an incoming payment
\* whose receivedByPlugins amounts sum to at least its expectedAmount has
\* internalState COMPLETED
C20_Original ==
  \A i \in DOMAIN incoming :
    Covered(incoming[i]) => incoming[i].internalState = COMPLETED

\* C20 amended: the same for every incoming payment a plugin has reported
\* a payment for
C20_Amended ==
  \A i \in DOMAIN incoming :
    (Covered(incoming[i]) /\ incoming[i].receivedByPlugins # << >>)
      => incoming[i].internalState = COMPLETED

\* an invoice was paid in two parts, the first of which left an amount due
C20_Witness ==
  \E i \in DOMAIN incoming :
    /\ Covered(incoming[i])
    /\ Len(incoming[i].receivedByPlugins) = 2
    /\ incoming[i].receivedByPlugins[1].amount < incoming[i].expectedAmount
    /\ incoming[i].receivedByPlugins[1].amount > 0
    /\ incoming[i].internalState = COMPLETED

\* the last handler was handleNewPayment for a personal payment and
\* returned: the payment it reconciled is receiver'.id
Reconciled ==
  /\ lastOp' = "handleNewPayment"
  /\ lastErr' = NoError
  /\ receiver'.id \in DOMAIN incoming

\* what is missing of an incoming payment
Shortfall(p) ==
  p.expectedAmount - totalReceivedAmount(p.receivedByPlugins)

C21_Step ==
  Reconciled
    => IF Shortfall(incoming'[receiver'.id]) > 0
       THEN /\ receiver'.did.invoice = Shortfall(incoming'[receiver'.id])
            /\ incoming'[receiver'.id].internalState = IN_PROGRESS
            /\ receiver'.did.notified.id = receiver'.id
            /\ receiver'.did.notified.amountDue = receiver'.did.invoice
            /\ receiver'.did.notified.invoiceURL
                 = InvoiceURL(incoming[receiver'.id].clientOrderId)
            /\ Len(incoming') = Len(incoming) + 1
            /\ incoming'[Len(incoming')].expectedAmount
                 = receiver'.did.invoice
            /\ incoming'[Len(incoming')].receivedByPlugins = << >>
       ELSE /\ receiver'.did.invoice = NoAmount
            /\ receiver'.did.notified.id = receiver'.id
            /\ receiver'.did.notified.invoiceURL = NoName
            /\ Len(incoming') = Len(incoming)

\* C21: handleNewPayment for a personal payment calls createInvoice again
\* exactly when the total received is still below the expected amount, with
\* the expected amount minus the total; the payment is then IN_PROGRESS and
\* the URL of the new invoice is in the notified result; when the total
\* reaches the expected amount no invoice is created
C21_Continuation ==
  [][C21_Step]_vars

\* the second part payment of an invoice still left an amount due
C21_Witness ==
  /\ lastOp = "handleNewPayment"
  /\ lastErr = NoError
  /\ receiver.id < Len(incoming)
  /\ Len(incoming[receiver.id].receivedByPlugins) = 2
  /\ receiver.did.invoice = 1
  /\ receiver.did.notified.invoiceURL = InvoiceURL("inv-9")

\* the handler before this one recorded a part for payment receiver.id and
\* left an invoice for the rest, and this handler reconciled the payment of
\* exactly that rest under the id of the new invoice
PaidTheRest ==
  /\ lastOp = "handleNewPayment"
  /\ receiver.did.invoice # NoAmount
  /\ totalReceivedAmount(incoming[receiver.id].receivedByPlugins) > 0
  /\ Reconciled
  /\ receiver'.id = Len(incoming)
  /\ totalReceivedAmount(incoming'[receiver'.id].receivedByPlugins)
       = receiver.did.invoice

\* C22: after createInvoice(c, E), a personal payment of a < E and then a
\* personal payment of the missing E - a through the invoice for the rest,
\* the incoming payment that recorded the first part is COMPLETED
C22_Original ==
  [][PaidTheRest
       => incoming'[receiver.id].internalState = COMPLETED]_vars

\* what updatePayment finds wrong with a personal payload
Mismatch(db, payload) ==
  IF payload.id \notin DOMAIN db THEN PAYMENT_OBJECT_NOT_FOUND
  ELSE IF db[payload.id].expectedCurrency # payload.currency
  THEN PAYMENT_CURRENCY_MISMATCH
  ELSE IF db[payload.id].expectedDenomination # payload.denomination
  THEN PAYMENT_DENOMINATION_MISMATCH
  ELSE NoError

\* C23: for a personal payload whose id names no incoming payment or whose
\* currency or denomination differs from the expected one, handleNewPayment
\* raises PAYMENT_OBJECT_NOT_FOUND, PAYMENT_CURRENCY_MISMATCH or
\* PAYMENT_DENOMINATION_MISMATCH and changes nothing: the db is as it was,
\* init() and createInvoice are not called, nothing is notified
C23_Refused ==
  \A payload \in Payloads :
    (payload.isPersonalPayment /\ Mismatch(incoming, payload) # NoError)
      => \A out \in {handleNewPayment(incoming, payload)} :
           /\ out.err = Mismatch(incoming, payload)
           /\ out.db = incoming
           /\ out.did = Quiet

\* a payload in another currency was refused for a payment that had
\* received a part, and the receiver is as the handler before left it
C23_Witness ==
  /\ lastOp = "handleNewPayment"
  /\ lastErr = PAYMENT_CURRENCY_MISMATCH
  /\ receiver.id \in DOMAIN incoming
  /\ incoming[receiver.id].receivedByPlugins # << >>
  /\ incoming[receiver.id].internalState = IN_PROGRESS
  /\ receiver.did = Quiet
  /\ receiver.written

Intermediate ==
  /\ Len(cbLog') = Len(cbLog) + 1
  /\ cbLog'[Len(cbLog')].pluginState \notin {PLUGIN_FAILED, SUCCESS}
  /\ getPaymentInProgress(World) # 0

\* C25: an update whose pluginState is neither 'failed' nor 'success' is
\* forwarded to the entry-point callback; the state machine of the payment
\* (internalState IN_PROGRESS, currentPlugin, pendingPlugins, triedPlugins)
\* and the state of the order stay as they were, no pay() is invoked.
C25_Step ==
  Intermediate
  => /\ lastErr' = NoError
     /\ SamePaymentStates
     /\ payments'[getPaymentInProgress(World)].state.internalState = IN_PROGRESS
     /\ payLog' = payLog
     /\ registry' = registry
     /\ reports' = Append(reports, [kind |-> "payment",
                                    payment |-> getPaymentInProgress(World),
                                    what |-> IN_PROGRESS])

C25_Intermediate ==
  [][C25_Step]_vars

\* a pending update has been forwarded for the payment in progress
C25_Witness ==
  /\ lastOp = "stateUpdateCallback"
  /\ lastErr = NoError
  /\ cbLog # << >>
  /\ cbLog[Len(cbLog)].pluginState = PENDING
  /\ getPaymentInProgress(World) # 0
  /\ reports # << >>
  /\ reports[Len(reports)] = [kind |-> "payment",
                              payment |-> getPaymentInProgress(World),
                              what |-> IN_PROGRESS]

\* ------------------------------------------------------------------------
\* order.process()
\* ------------------------------------------------------------------------
\* a payment of the order is FAILED, or the order is neither INITIALIZED nor
\* PROCESSING
Unprocessable ==
  \/ \E i \in DOMAIN payments : isFailed(payments[i].state)
  \/ order.state \notin {INITIALIZED, PROCESSING}

\* C26: order.process() raises CAN_NOT_PROCESS_ORDER whenever a payment of
\* the order is FAILED or the state of the order is neither INITIALIZED nor
\* PROCESSING, and then changes neither the order nor any payment.
C26_Step ==
  (lastOp' = "order.process" /\ Unprocessable)
  => /\ lastErr' = CAN_NOT_PROCESS_ORDER
     /\ order' = order
     /\ payments' = payments
     /\ payLog' = payLog

C26_Refused ==
  [][C26_Step]_vars

\* a recurring order whose first payment failed was asked to process: its
\* next payment is still INITIAL
C26_Witness ==
  /\ lastOp = "order.process"
  /\ lastErr = CAN_NOT_PROCESS_ORDER
  /\ order.frequency # 0
  /\ order.state \in {INITIALIZED, PROCESSING}
  /\ \E i, j \in DOMAIN payments :
       /\ i < j
       /\ isFailed(payments[i].state)
       /\ isInitial(payments[j].state)

\* order.process() runs in this step on an order with a payment in progress
ProcessInProgress ==
  /\ lastOp' = "order.process"
  /\ getPaymentInProgress(World) # 0

\* the order, its payments and the calls of pay() stay as they were
NothingProcessed ==
  /\ order' = order
  /\ payments' = payments
  /\ payLog' = payLog

InProgressEngaged ==
  \A i \in DOMAIN payments :
    isInProgress(payments[i].state) => payments[i].state.currentPlugin # Nil

\* order.process() runs in this step on an order that can be processed and
\* whose first payment that is not final is due later than now
NotYetDue ==
  /\ lastOp' = "order.process"
  /\ canProcess(World)
  /\ firstNotFinal(World) # 0
  /\ payments[firstNotFinal(World)].executeAt > now

\* C28: when the first payment that is not final has executeAt > now,
\* order.process() returns that payment unchanged: it stays INITIAL with no
\* plugin engaged, nothing is written and the order does not become
\* PROCESSING.
C28_Step ==
  NotYetDue
  => /\ lastErr' = NoError
     /\ O_process(World).ret = firstNotFinal(World)
     /\ NothingProcessed
     /\ registry' = registry
     /\ reports' = reports
     /\ payments'[firstNotFinal(World)].state.internalState = INITIAL
     /\ payments'[firstNotFinal(World)].state.currentPlugin = Nil

C28_NotYetDue ==
  [][C28_Step]_vars

\* order.process() has returned on an order whose only payment is due
\* later: the order is still INITIALIZED, the payment INITIAL
C28_Witness ==
  /\ lastOp = "order.process"
  /\ lastErr = NoError
  /\ order.state = INITIALIZED
  /\ firstNotFinal(World) # 0
  /\ payments[firstNotFinal(World)].executeAt > now
  /\ isInitial(payments[firstNotFinal(World)].state)

\* ------------------------------------------------------------------------
\* One payment at a time
\* ------------------------------------------------------------------------
\* C29: in every reachable state of an order driven by submit, process,
\* plugin callbacks, complete and cancel, at most one of its payments has
\* internalState IN_PROGRESS.
C29_OneInProgress ==
  Cardinality({ i \in DOMAIN payments : isInProgress(payments[i].state) }) <= 1

\* a recurring order at work on its second payment, the first one completed
\* and the second one due
C29_Witness ==
  /\ Len(payments) >= 2
  /\ payments[1].state.internalState = COMPLETED
  /\ isInProgress(payments[2].state)
  /\ payments[2].executeAt <= now

\* ------------------------------------------------------------------------
\* Endpoint resolution in submit()
\* ------------------------------------------------------------------------
\* submit() runs in this step, order.process() hands it payment i engaged
\* with plugin name, and the resolution of the endpoint yields nil: the
\* catalogue of the counterparty cannot be read or has no endpoint for name
NoTarget(i, name) ==
  /\ lastOp' = "submit"
  /\ \E p \in {O_process(World)} :
       /\ p.err = NoError
       /\ p.ret = i
       /\ \E g \in {getCurrentPlugin(p.w, p.ret)} :
            /\ g.err = NoError
            /\ g.w.payments[i].state.currentPlugin.name = name
  /\ \/ ~catalogue.readable
     \/ name \notin catalogue.targets

\* plugin name was marked failed for payment i and not asked to pay
FailedUnpaid(i, name) ==
  /\ \E k \in DOMAIN payments'[i].state.triedPlugins :
       /\ payments'[i].state.triedPlugins[k].name = name
       /\ payments'[i].state.triedPlugins[k].state = PLUGIN_FAILED
  /\ \A k \in DOMAIN payLog' :
       k > Len(payLog) => payLog'[k] # [payment |-> i, plugin |-> name]

\* C30 as stated: when the resolution of the endpoint yields nil in
\* submit(), the current plugin is marked failed without its pay() being
\* invoked, the sender goes on to the next plugin, and no exception reaches
\* the caller of submit().
C30_Original ==
  [][\A i \in DOMAIN payments, name \in Plugins :
       NoTarget(i, name) => (lastErr' = NoError /\ FailedUnpaid(i, name))]_vars

\* ------------------------------------------------------------------------
\* Writes and notifications
\* ------------------------------------------------------------------------
\* the outcome of the handler for the update this step delivers
Handling ==
  stateUpdateCallback(World, cbLog'[Len(cbLog')].pluginState)

\* C31: while the sender handles a plugin update, every assignment the
\* update causes (pluginUpdate, the plugin failed or the payment completed,
\* the state of the order) is written to the store before the notification
\* about it goes to the entry-point callback, and nothing is left unwritten
\* when the handler returns.
C31_Step ==
  (Len(cbLog') = Len(cbLog) + 1 /\ getPaymentInProgress(World) # 0)
  => \A h \in {Handling} :
       /\ ~h.w.lost
       /\ h.err = NoError => h.w.unsaved = {}
       /\ h.w.reports = reports'
       /\ Len(reports') > Len(reports)

C31_WriteFirst ==
  [][C31_Step]_vars

\* a success was handled for the only payment of an order: the payment was
\* reported and the order is COMPLETED
C31_Witness ==
  /\ lastOp = "stateUpdateCallback"
  /\ lastErr = NoError
  /\ cbLog # << >>
  /\ cbLog[Len(cbLog)].pluginState = SUCCESS
  /\ order.state = ORDER_COMPLETED_STATE
  /\ reports # << >>
  /\ reports[Len(reports)].kind = "payment"

\* ------------------------------------------------------------------------
\* Success in a recurring order
\* ------------------------------------------------------------------------
\* this step delivers 'success' for payment i, which is in progress, while
\* another payment of the order is not final
SuccessWithOutstanding(i) ==
  /\ Len(cbLog') = Len(cbLog) + 1
  /\ cbLog'[Len(cbLog')].pluginState = SUCCESS
  /\ getPaymentInProgress(World) = i
  /\ \E j \in DOMAIN payments : j # i /\ ~isFinal(payments[j].state)

\* C32 as stated: a success for a payment of a recurring order with other
\* payments outstanding completes the payment, reports it, leaves the order
\* not COMPLETED, calls submit() for the next payment and reports
\* 'payment_order_partially_complete', and no exception leaves the callback.
C32_Original ==
  [][\A i \in DOMAIN payments :
       SuccessWithOutstanding(i)
       => /\ lastErr' = NoError
          /\ payments'[i].state.internalState = COMPLETED
          /\ order'.state # ORDER_COMPLETED_STATE
          /\ Len(reports') >= Len(reports) + 2
          /\ reports'[Len(reports) + 1] =
               [kind |-> "payment", payment |-> i, what |-> COMPLETED]
          /\ reports'[Len(reports')].kind = "payment_order_partially_complete"]_vars

\* ------------------------------------------------------------------------
\* Whose callback
\* ------------------------------------------------------------------------
\* this step delivers a callback that answers the pay() of payment k
Answers(k) ==
  /\ Len(cbLog') = Len(cbLog) + 1
  /\ cbLog'[Len(cbLog')].payment = k

\* C33 as stated: a callback changes only the payment whose pay() it
\* answers: a callback for payment k completes no other payment, and one
\* that arrives when payment k is final changes no other payment.
C33_Original ==
  [][\A k \in DOMAIN payments :
       Answers(k)
       => \A j \in DOMAIN payments \ {k} :
            /\ payments'[j].state.internalState = COMPLETED
                 => payments[j].state.internalState = COMPLETED
            /\ isFinal(payments[k].state)
                 => payments'[j].state = payments[j].state]_vars

\* ------------------------------------------------------------------------
\* PaymentManager.sendPayment, called more than once for one order
\* ------------------------------------------------------------------------
MaxCalls ==
  2

\* a call of sendPayment(id) that has not read the store yet
Called ==
  [pc |-> "find", order |-> order, payments |-> << >>]

\* sendPayment(id) is called: new PluginManager, then PaymentOrder.find
SendPayment ==
  /\ Len(tasks) < MaxCalls
  /\ tasks' = Append(tasks, Called)
  /\ lastOp' = "sendPayment"
  /\ lastErr' = NoError
  /\ UNCHANGED <<order, payments, now, registry, catalogue, payLog, cbLog,
                 reports, pm, incoming, receiver>>

\* PaymentOrder.find(id, db): call c builds its own PaymentOrder and its own
\* PaymentObjects from what the store holds now
Find ==
  \E c \in DOMAIN tasks :
    /\ tasks[c].pc = "find"
    /\ tasks' = [tasks EXCEPT ![c] = [pc |-> "submit", order |-> order,
                                       payments |-> payments]]
    /\ lastOp' = "find"
    /\ lastErr' = NoError
    /\ UNCHANGED <<order, payments, now, registry, catalogue, payLog, cbLog,
                   reports, pm, incoming, receiver>>

\* the objects of call c, with the plugin manager the call has built
Own(c) ==
  [order |-> tasks[c].order, payments |-> tasks[c].payments,
   registry |-> [p \in Plugins |-> "absent"],
   payLog |-> payLog, reports |-> reports, unsaved |-> {}, lost |-> FALSE]

\* the store after call c has written the objects it changed: a payment
\* the call did not touch stays as the store has it
Stored(c, w) ==
  [i \in 1..Len(w.payments) |->
     IF i \in DOMAIN payments /\ w.payments[i] = tasks[c].payments[i]
     THEN payments[i]
     ELSE w.payments[i]]

\* paymentSender.submit() of call c, on its own objects
SenderSubmit ==
  \E c \in DOMAIN tasks :
    /\ tasks[c].pc = "submit"
    /\ \E res \in {submit(Own(c))} :
         /\ Len(res.w.payments) <= MaxPayments
         /\ tasks' = [tasks EXCEPT ![c] = [pc |-> "done",
                                            order |-> res.w.order,
                                            payments |-> res.w.payments]]
         /\ order' = IF res.w.order = tasks[c].order THEN order ELSE res.w.order
         /\ payments' = Stored(c, res.w)
         /\ payLog' = res.w.payLog
         /\ reports' = res.w.reports
         /\ lastOp' = "submit"
         /\ lastErr' = res.err
    /\ UNCHANGED <<now, registry, catalogue, cbLog, pm, incoming, receiver>>

NextTwice ==
  \/ SendPayment
  \/ Find
  \/ SenderSubmit
  \/ Tick

SpecTwice ==
  Init /\ [][NextTwice]_vars

\* C34 as stated: when sendPayment(orderId) is called twice for one order,
\* one call after the other or interleaved, pay() is invoked at most once
\* for any payment and plugin.
C34_Original ==
  \A j, k \in DOMAIN payLog : payLog[j] = payLog[k] => j = k

\* one call after the other: a submit() whose objects are what the store
\* holds, no other call having written since its find, repeats no pay()
UpToDate ==
  [][\A c \in DOMAIN tasks :
       (/\ tasks[c].pc = "submit"
        /\ tasks'[c].pc = "done"
        /\ tasks[c].order = order
        /\ tasks[c].payments = payments)
       => \A k \in DOMAIN payLog' :
            k > Len(payLog) => \A j \in DOMAIN payLog : payLog[j] # payLog'[k]]_vars

\* ------------------------------------------------------------------------
\* PluginManager.injectPlugin, calls that run interleaved
\* ------------------------------------------------------------------------
\* the modules the interleaved calls inject: each initialises and hands out
\* a valid manifest
Injected ==
  { module \in Modules : /\ module.init = "ok"
                          /\ module.getmanifest = "ok"
                          /\ module.hasStop }

\* injectPlugin(module) is called and runs up to its first await
InjectCall ==
  /\ Len(tasks) < MaxCalls
  /\ \E module \in Injected :
       tasks' = Append(tasks, [pc |-> "getManifest", module |-> module])
  /\ lastOp' = "injectPlugin"
  /\ lastErr' = NoError
  /\ UNCHANGED <<order, payments, now, registry, catalogue, payLog, cbLog,
                 reports, pm, incoming, receiver>>

\* initPlugin and getManifest of call c, up to the return of getManifest:
\* the manifest is validated, then the registry is looked at
GetManifest ==
  \E c \in DOMAIN tasks :
    /\ tasks[c].pc = "getManifest"
    /\ tasks' = [tasks EXCEPT ![c].pc =
                   IF registry[tasks[c].module.name] # "absent"
                   THEN "thrown" ELSE "manifest"]
    /\ lastOp' = "getManifest"
    /\ lastErr' = IF registry[tasks[c].module.name] # "absent"
                  THEN CONFLICT ELSE NoError
    /\ UNCHANGED <<order, payments, now, registry, catalogue, payLog, cbLog,
                   reports, pm, incoming, receiver>>

\* call c resumes after await this.getManifest(...): the entry is assigned
\* and returned
Assign ==
  \E c \in DOMAIN tasks :
    /\ tasks[c].pc = "manifest"
    /\ tasks' = [tasks EXCEPT ![c].pc = "returned"]
    /\ registry' = [registry EXCEPT ![tasks[c].module.name] = "active"]
    /\ pm' = [pm EXCEPT !.plugin[tasks[c].module.name] = Entry(tasks[c].module),
                        !.keys = IF registry[tasks[c].module.name] = "absent"
                                 THEN Append(@, tasks[c].module.name) ELSE @,
                        !.arg = tasks[c].module.name,
                        !.ret = tasks[c].module.name]
    /\ lastOp' = "assign"
    /\ lastErr' = NoError
    /\ UNCHANGED <<order, payments, now, catalogue, payLog, cbLog, reports,
                   incoming, receiver>>

NextInject ==
  \/ InjectCall
  \/ GetManifest
  \/ Assign

SpecInject ==
  InitPlugins /\ [][NextInject]_vars

\* C35 as stated: of two interleaved injectPlugin calls for modules with the
\* same manifest name at most one succeeds, and the entry of the call that
\* succeeded is not overwritten by the other.
C35_Original ==
  [][/\ \A c, d \in DOMAIN tasks' :
          (/\ c # d
           /\ tasks'[c].module.name = tasks'[d].module.name
           /\ tasks'[c].pc = "returned")
          => tasks'[d].pc # "returned"
     /\ \A p \in Plugins :
          registry[p] = "active" => pm'.plugin[p] = pm.plugin[p]]_vars

\* ------------------------------------------------------------------------
\* executeAt along the payments of an order
\* ------------------------------------------------------------------------
\* what the entry-point callback of the application throws
CALLBACK_THREW ==
  Err("entryPointForPlugin", "")

\* handleSuccess(payment) when the entry-point callback throws on the
\* notification of the completed payment: order.complete() is not reached
handleSuccessThrown(w, i) ==
  Only({ IF c.err # NoError THEN Raise(c.w, c.err)
         ELSE Raise(Report(c.w, "payment", i,
                           c.w.payments[i].state.internalState),
                    CALLBACK_THREW)
       : c \in {PO_complete(w, i)} })

\* a plugin reports 'success' for the payment in progress and the
\* application's callback throws when it is told
NotificationThrows ==
  /\ Len(cbLog) < MaxCallbacks
  /\ getPaymentInProgress(World) # 0
  /\ \E i \in Paid :
       \E res \in {handleSuccessThrown(
                      update(Assigned([World EXCEPT
                          !.payments[getPaymentInProgress(World)].pluginUpdate =
                             SUCCESS], getPaymentInProgress(World)),
                        getPaymentInProgress(World)),
                      getPaymentInProgress(World))} :
         /\ Run("stateUpdateCallback", res)
         /\ cbLog' = Append(cbLog, [payment |-> i,
                                    plugin |-> Engaged,
                                    pluginState |-> SUCCESS,
                                    err |-> res.err])

NextBatch ==
  \/ Submit
  \/ StateUpdateCallback
  \/ NotificationThrows
  \/ OrderProcess
  \/ Tick

SpecBatch ==
  Init /\ [][NextBatch]_vars

\* C36 as stated: the payment at index i (from 0) of an order has
\* executeAt = firstPaymentAt + i * frequency, so that the executeAt of the
\* payments are strictly increasing, also after order.process() has
\* allocated a further batch.
C36_Original ==
  /\ \A i \in DOMAIN payments :
       payments[i].executeAt = order.firstPaymentAt + (i - 1) * order.frequency
  /\ \A i, j \in DOMAIN payments :
       i < j => payments[i].executeAt < payments[j].executeAt

\* ------------------------------------------------------------------------
\* The sender and stopped plugins
\* ------------------------------------------------------------------------
\* updatePayment(data): the plugin of the payment in progress is handed the
\* data
S_updatePayment(w) ==
  getCurrentPlugin(w, getPaymentInProgress(w))

UpdatePayment ==
  /\ \E res \in {S_updatePayment(World)} :
       /\ registry' = res.w.registry
       /\ pm' = [pm EXCEPT !.calls =
                   IF res.err = NoError
                   THEN <<Call(res.w.payments[res.ret].state.currentPlugin.name,
                               "updatePayment")>>
                   ELSE << >>]
       /\ lastOp' = "updatePayment"
       /\ lastErr' = res.err
  /\ UNCHANGED <<order, payments, now, catalogue, payLog, cbLog, reports,
                 incoming, receiver, tasks>>

\* pluginManager.stopPlugin(name) on a plugin the sender has loaded: the
\* entry stays, active is false; one plugin is stopped at most
StopActive ==
  /\ \A q \in Plugins : registry[q] # "inactive"
  /\ \E p \in Plugins :
       /\ registry[p] = "active"
       /\ registry' = [registry EXCEPT ![p] = "inactive"]
  /\ lastOp' = "stopPlugin"
  /\ lastErr' = NoError
  /\ UNCHANGED <<order, payments, now, catalogue, payLog, cbLog, reports, pm,
                 incoming, receiver, tasks>>

NextStop ==
  \/ Submit
  \/ StateUpdateCallback
  \/ UpdatePayment
  \/ StopActive
  \/ Tick

SpecStop ==
  Init /\ [][NextStop]_vars

\* the payment order.process() hands to submit() in this step, 0 if it
\* throws or hands out none
Handed ==
  Only({ IF p.err = NoError THEN p.ret ELSE 0 : p \in {O_process(World)} })

\* the plugin that payment is engaged with when getCurrentPlugin looks
HandedPlugin ==
  Only({ IF p.err = NoError /\ p.ret # 0
         THEN p.w.payments[p.ret].state.currentPlugin
         ELSE Nil
       : p \in {O_process(World)} })

\* no pay() of this step went to a plugin that is stopped
NoPayStopped ==
  \A k \in DOMAIN payLog' :
    k > Len(payLog) => registry[payLog'[k].plugin] # "inactive"

\* C37 as stated: when the current plugin of the payment is registered but
\* stopped, submit() and updatePayment() raise 'Plugin is not active'
\* without calling the plugin.
C37_Original ==
  [][(/\ lastOp' \in {"submit", "updatePayment"}
      /\ Engaged # NoName
      /\ registry[Engaged] = "inactive")
     => /\ lastErr' = PLUGIN_NOT_ACTIVE
        /\ NoPayStopped]_vars

\* C37: the sender calls neither pay() nor updatePayment() of a stopped
\* plugin. updatePayment() raises 'Plugin is not active' when the plugin of
\* the payment in progress is stopped; submit() raises it when the plugin
\* of the payment order.process() hands it is stopped, and
\* NO_PLUGINS_AVAILABLE when that payment has no current plugin; for a
\* payment that is already engaged submit() raises PLUGIN_IN_PROGRESS,
\* whether the plugin is stopped or not.
C37_Step ==
  /\ lastOp' = "updatePayment"
       => /\ (Engaged # NoName /\ registry[Engaged] = "inactive")
               => (lastErr' = PLUGIN_NOT_ACTIVE /\ pm'.calls = << >>)
          /\ \A k \in DOMAIN pm'.calls :
               registry[pm'.calls[k].plugin] # "inactive"
  /\ lastOp' = "submit"
       => /\ NoPayStopped
          /\ (Handed # 0 /\ HandedPlugin = Nil)
               => (lastErr' = NO_PLUGINS_AVAILABLE /\ payLog' = payLog)
          /\ (HandedPlugin # Nil /\ registry[HandedPlugin.name] = "inactive")
               => (lastErr' = PLUGIN_NOT_ACTIVE /\ payLog' = payLog)
          /\ Engaged # NoName => lastErr' = PLUGIN_IN_PROGRESS(Engaged)

C37_Amended ==
  [][C37_Step]_vars

\* updatePayment() was refused because the plugin of the payment in
\* progress is stopped
C37_Witness ==
  /\ lastOp = "updatePayment"
  /\ lastErr = PLUGIN_NOT_ACTIVE
  /\ Engaged # NoName
  /\ registry[Engaged] = "inactive"
  /\ pm.calls = << >>

\* ------------------------------------------------------------------------
\* Plugins that answer every pay()
\* ------------------------------------------------------------------------
\* the plugin that was asked to pay last and has not answered yet calls the
\* notificationCallback with 'failed' or 'success'; every pay() is answered
\* once
Answer ==
  /\ Len(cbLog) < Len(payLog)
  /\ \E st \in {PLUGIN_FAILED, SUCCESS} :
       \E res \in {stateUpdateCallback(World, st)} :
         /\ Run("stateUpdateCallback", res)
         /\ cbLog' = Append(cbLog, [payment |-> payLog[Len(cbLog) + 1].payment,
                                    plugin |-> Engaged,
                                    pluginState |-> st,
                                    err |-> res.err])

NextAnswer ==
  \/ Submit
  \/ Answer
  \/ Tick

\* no plugin keeps a pay() unanswered for ever
SpecAnswer ==
  Init /\ [][NextAnswer]_vars /\ WF_vars(Answer)

\* the pay() invocations made for payment i
PayCount(i) ==
  Cardinality({ k \in DOMAIN payLog : payLog[k].payment = i })

\* payment i has been engaged by submit() and is not final
Pending(i) ==
  /\ i \in DOMAIN payments
  /\ isInProgress(payments[i].state)

Settled(i) ==
  /\ i \in DOMAIN payments
  /\ payments[i].state.internalState \in {COMPLETED, FAILED}

\* C38: a payment that submit() has engaged is COMPLETED or FAILED in the
\* end, when every plugin answers the pay() it got with 'failed' or
\* 'success', and no payment is handed to pay() more often than the order
\* has plugins.
C38_Original ==
  /\ [](\A i \in DOMAIN payments : PayCount(i) <= Len(order.sendingPriority))
  /\ \A i \in 1..MaxPayments : Pending(i) ~> Settled(i)

\* the same with a counterparty whose payment endpoints can be read
Terminates ==
  /\ [](\A i \in DOMAIN payments : PayCount(i) <= Len(order.sendingPriority))
  /\ \A i \in 1..MaxPayments :
       (catalogue.readable /\ Pending(i)) ~> Settled(i)

\* ------------------------------------------------------------------------
\* Terminal orders
\* ------------------------------------------------------------------------
\* the order is COMPLETED or CANCELLED
Terminal ==
  order.state \in {ORDER_COMPLETED_STATE, ORDER_CANCELLED_STATE}

\* C39: once the order is COMPLETED or CANCELLED, no submit(), process(),
\* complete(), cancel() or callback changes its state, engages a plugin or
\* has a plugin pay: COMPLETED never becomes CANCELLED, CANCELLED never
\* becomes COMPLETED or PROCESSING.
C39_Step ==
  Terminal
    => /\ order'.state = order.state
       /\ payments' = payments
       /\ payLog' = payLog
       /\ registry' = registry

C39_Terminal ==
  [][C39_Step]_vars

\* cancel() was refused on a COMPLETED order
C39_Witness ==
  /\ order.state = ORDER_COMPLETED_STATE
  /\ lastOp = "order.cancel"
  /\ lastErr = ORDER_COMPLETED

====
